---------------------------- MODULE Spec2Model ----------------------------
(***************************************************************************)
(* A model of onstreamsg.cpp, the SCSI-generic driver of the OnStream ADR  *)
(* tape unit: the pending-write ledger (the TAPEBUFFER list), the write    *)
(* session and the read session of main(), with the drive as environment. *)
(***************************************************************************)
EXTENDS Integers, Sequences, FiniteSets, TLC

(***************************************************************************)
(* Bounds of the model.                                                    *)
(***************************************************************************)
\* nodes of the TAPEBUFFER heap
MaxAddr == 8
\* pushes, and the largest trim request, of the ledger-only specification
MaxPush == 4
MaxTrim == 3
\* frames the drive buffers before a write has to wait for the tape
DriveCap == 2
\* faults the drive injects in one session
MaxFaults == 1
\* buffered-frame count the drive may report at session start
MaxInitBuf == 1
\* data frames of the recorded stream a read session is given
MaxFrames == 3
\* skips of 5 frames over blank tape a read session is followed through
MaxSkips == 2
\* consecutive medium write errors on a medium that fails every Write
MaxRetries == 6
\* how many frames before second_cfg the session given a start frame begins
AreaLead == 2
MaxBlocks == 3
MaxStart == 2
DumpCap == 6

(***************************************************************************)
(* Program constants.                                                      *)
(***************************************************************************)
PayloadSize == 32768
FrameSize == 33280
ChunkSize == 131072
FrameTypeData == 32768
FrameTypeHeader == 2048
FrameTypeEOD == 256
ConfigFrame == 5
UserPartition == 10
SecondCfg12 == 2990
SecondCfg11 == 2994
StartFrame11 == 16
AfterSecondCfg == 3000
DefaultSkip == 80
SkipLocateFirmware == 10600

(***************************************************************************)
(* Unsigned int arithmetic.  A 32-bit unsigned value is kept as its two's  *)
(* complement representative in -2^31 .. 2^31-1, so that 0 - 1 is the      *)
(* representative -1 of 0xFFFFFFFF; ULess is the unsigned comparison.      *)
(***************************************************************************)
ULess(a, b) ==
    IF (a >= 0) = (b >= 0) THEN a < b ELSE a >= 0

Min(a, b) == IF a < b THEN a ELSE b
Max(a, b) == IF a < b THEN b ELSE a

(***************************************************************************)
(* Byte buffers as sets of segments [lo, hi) of one kind: "data" bytes     *)
(* hold the input byte at (index + off), "zero" bytes are 0, "stale" bytes *)
(* are whatever the storage held before.                                   *)
(***************************************************************************)
Seg(lo, hi, kind, off) == [lo |-> lo, hi |-> hi, kind |-> kind, off |-> off]

\* memset / fread into [lo, hi) of buffer B
Overwrite(B, lo, hi, kind, off) ==
    IF lo >= hi THEN B
    ELSE {Seg(s.lo, Min(s.hi, lo), s.kind, s.off) : s \in {t \in B : t.lo < lo}}
         \cup {Seg(Max(s.lo, hi), s.hi, s.kind, s.off) : s \in {t \in B : t.hi > hi}}
         \cup {Seg(lo, hi, kind, off)}

\* memcpy(dst, B + lo, hi - lo): the bytes [lo, hi) of B, re-based to 0
Slice(B, lo, hi) ==
    {Seg(Max(s.lo, lo) - lo, Min(s.hi, hi) - lo, s.kind,
         IF s.kind = "data" THEN s.off + lo ELSE 0) :
       s \in {t \in B : t.lo < hi /\ t.hi > lo}}

StaleBuffer(n) == {Seg(0, n, "stale", 0)}
ZeroBuffer(n) == {Seg(0, n, "zero", 0)}

(***************************************************************************)
(* The auxiliary record.  AUX_FRAME keeps the fields the sessions use; the *)
(* formatted record keeps each field in its on-tape width, with the        *)
(* 4-byte format marker in front.                                          *)
(***************************************************************************)
AuxRecord(type, pass, seq, n, size) ==
    [FrameType |-> type, PartDescVersion |-> 0, WritePassCounter |-> pass,
     FrameSequenceNumber |-> seq, nEntries |-> n, size |-> size]

FormatAuxFrame(AuxFrame) ==
    [marker |-> 0,
     FrameType |-> AuxFrame.FrameType % 65536,
     PartDescVersion |-> 1,
     WritePassCounter |-> AuxFrame.WritePassCounter % 65536,
     FrameSequenceNumber |-> AuxFrame.FrameSequenceNumber,
     nEntries |-> AuxFrame.nEntries % 256,
     size |-> IF AuxFrame.nEntries >= 1 THEN AuxFrame.size ELSE 0]

\* unFormatAuxFrame(FAuxFrame, &AuxFrame): the memset clears sizeof(pointer)
\* bytes, that is FormatID and ApplicationSig only; a record whose marker
\* is not zero leaves every other field of *AuxFrame as it was, and table
\* entry 0 is read only when nEntries >= 1.
unFormatAuxFrame(FAuxFrame, AuxFrame) ==
    IF FAuxFrame.marker # 0 THEN AuxFrame
    ELSE [FrameType |-> FAuxFrame.FrameType,
          PartDescVersion |-> AuxFrame.PartDescVersion,
          WritePassCounter |-> FAuxFrame.WritePassCounter,
          FrameSequenceNumber |-> FAuxFrame.FrameSequenceNumber,
          nEntries |-> Min(FAuxFrame.nEntries, 16),
          size |-> IF FAuxFrame.nEntries >= 1 THEN FAuxFrame.size ELSE AuxFrame.size]

\* A 33,280-byte frame image: payload region and formatted auxiliary record.
Image(payload, faux) == [payload |-> payload, aux |-> faux]
FreedFrame == Image({}, [marker |-> -1, FrameType |-> -1, PartDescVersion |-> -1,
                         WritePassCounter |-> -1,
                         FrameSequenceNumber |-> -1, nEntries |-> -1, size |-> -1])

(***************************************************************************)
(* The heap of TAPEBUFFER nodes.  Address 0 is NULL.  A node that was      *)
(* freed keeps its Next word (the memory is still there) and its Frame     *)
(* pointer refers to freed storage.                                        *)
(***************************************************************************)
NULL == 0
Addr == 1..MaxAddr
NoNode == [Frame |-> FreedFrame, Next |-> NULL, live |-> FALSE]

\* The ledger's memory: the global TapeBuffer (head), main's LastTapeBuffer
\* (tail), the global TotalBufferedFrames and the nodes.  ub records that a
\* freed node was dereferenced or freed again.
EmptyLedger ==
    [heap |-> [a \in Addr |-> NoNode], TapeBuffer |-> NULL,
     LastTapeBuffer |-> NULL, TotalBufferedFrames |-> 0, ub |-> FALSE]

\* The nodes TapeBuffer or LastTapeBuffer lead to, following Next through
\* live and freed nodes alike, each once, in the order they are met.
RECURSIVE Trace(_, _, _)
Trace(heap, a, seen) ==
    IF a = NULL \/ \E i \in 1..Len(seen) : seen[i] = a THEN seen
    ELSE Trace(heap, heap[a].Next, Append(seen, a))

Known(L) == Trace(L.heap, L.LastTapeBuffer, Trace(L.heap, L.TapeBuffer, <<>>))

\* the ledger with node order[i] moved to address i and every other node
\* forgotten
Renumber(L, order) ==
    LET ren(a) == IF a = NULL THEN NULL ELSE CHOOSE i \in 1..Len(order) : order[i] = a
    IN  [heap |-> [i \in Addr |->
                     IF i <= Len(order)
                     THEN [Frame |-> L.heap[order[i]].Frame,
                           Next |-> ren(L.heap[order[i]].Next),
                           live |-> L.heap[order[i]].live]
                     ELSE NoNode],
         TapeBuffer |-> ren(L.TapeBuffer),
         LastTapeBuffer |-> ren(L.LastTapeBuffer),
         TotalBufferedFrames |-> L.TotalBufferedFrames,
         ub |-> L.ub]

\* Storage no pointer of the program leads to can never be told from storage
\* that was never handed out: the nodes the program can still reach are kept,
\* numbered in the order of Known, and every other node is forgotten.
Collect(L) == Renumber(L, Known(L))

\* the storage malloc may return, given the nodes the program has pointers to
FreeStorage(L, known) ==
    {a \in known : ~L.heap[a].live}
    \cup (IF Addr \ known = {} THEN {}
          ELSE {CHOOSE a \in Addr \ known : \A b \in Addr \ known : a <= b})

\* malloc(sizeof(TAPEBUFFER)): the allocator returns storage that is not in
\* use; it may hand out again a freed node the program still has a pointer
\* to, or storage the program has no pointer to.
MallocChoices(L) == FreeStorage(L, {a \in Addr : \E i \in 1..Len(Known(L)) : Known(L)[i] = a})

\* AddFrameToBuffer with the head test of the source: the head is set from
\* the old value of *LastBuffer.
AddFrameToBuffer(L, frame, a) ==
    LET last == L.LastTapeBuffer
        h1 == [L.heap EXCEPT ![a] = [Frame |-> FreedFrame, Next |-> NULL, live |-> TRUE]]
        h2 == IF last # NULL THEN [h1 EXCEPT ![last].Next = a] ELSE h1
        uaf == last # NULL /\ ~L.heap[last].live
        head == IF L.TapeBuffer = NULL THEN last ELSE L.TapeBuffer
        h3 == [h2 EXCEPT ![a].Frame = frame]
    IN  Collect([heap |-> h3, TapeBuffer |-> head, LastTapeBuffer |-> a,
                 TotalBufferedFrames |-> L.TotalBufferedFrames + 1,
                 ub |-> L.ub \/ uaf])

\* The loop of DeleteFrames.  free() of a node that is already freed ends
\* the loop with crash set (the allocator aborts on a double free).
RECURSIVE DeleteLoop(_, _, _, _)
DeleteLoop(L, This, counter, n) ==
    IF ULess(counter, n) /\ This # NULL
    THEN LET node == L.heap[This]
             L1 == [L EXCEPT !.heap[This] = [Frame |-> FreedFrame, Next |-> node.Next, live |-> FALSE],
                             !.TotalBufferedFrames = @ - 1]
         IN  IF ~node.live
             THEN [L |-> [L EXCEPT !.ub = TRUE], This |-> This, counter |-> counter, crash |-> TRUE]
             ELSE DeleteLoop(L1, node.Next, counter + 1, n)
    ELSE [L |-> L, This |-> This, counter |-> counter, crash |-> FALSE]

\* The end of DeleteFrames, r being what its loop left.  On failure
\* *FirstBuffer is left as it was.
DeleteResult(r, EntriesToDelete) ==
    IF r.crash THEN [L |-> Collect(r.L), ok |-> FALSE, crash |-> TRUE]
    ELSE IF ULess(r.counter, EntriesToDelete) /\ r.This = NULL
    THEN [L |-> Collect(r.L), ok |-> FALSE, crash |-> FALSE]
    ELSE [L |-> Collect([r.L EXCEPT !.TapeBuffer = r.This]), ok |-> TRUE, crash |-> FALSE]

\* DeleteFrames(&TapeBuffer, EntriesToDelete): [L, ok, crash].
DeleteFrames(L, EntriesToDelete) ==
    DeleteResult(DeleteLoop(L, L.TapeBuffer, 0, EntriesToDelete), EntriesToDelete)

\* the result of CheckWrittenFrames, d being what its DeleteFrames returned
Checked(d, CurrentBuffer) ==
    [L |-> d.L, ok |-> d.ok, crash |-> d.crash, previousFrames |-> CurrentBuffer]

\* CheckWrittenFrames with the count CurrentBuffer that BufferStatus reports:
\* [L, ok, crash, previousFrames].
CheckWrittenFrames(L, addedFrames, previousFrames, CurrentBuffer) ==
    Checked(DeleteFrames(L, previousFrames - (CurrentBuffer - addedFrames)), CurrentBuffer)

\* The entries reachable from the head, oldest first, as addresses; a
\* traversal that does not end (a cycle) is cut after MaxAddr + 1 nodes.
RECURSIVE Walk(_, _, _)
Walk(heap, a, fuel) ==
    IF a = NULL \/ fuel = 0 THEN <<>>
    ELSE <<a>> \o Walk(heap, heap[a].Next, fuel - 1)

Reachable(L) == Walk(L.heap, L.TapeBuffer, MaxAddr + 1)
Cyclic(L) == Len(Reachable(L)) > MaxAddr
FramesAt(L, nodes) == [i \in 1..Len(nodes) |-> L.heap[nodes[i]].Frame]
LedgerFrames(L) == FramesAt(L, Reachable(L))

(***************************************************************************)
(* State.                                                                  *)
(***************************************************************************)
VARIABLES
    mode,               \* "ledger", "write" or "read": what the run exercises
    pc,                 \* main's position
    ledger,             \* TapeBuffer, LastTapeBuffer, TotalBufferedFrames, nodes
    pushed,             \* frames handed to AddFrameToBuffer and not yet trimmed
                        \* by a successful DeleteFrames, oldest first
    lastDel,            \* the most recent DeleteFrames call and its result
    CurrentTapeBuffer,  \* main's count of frames the drive buffered at the last poll
    CurrentBuffer,      \* WaitForWrite's local CurrentBuffer
    CurrentFrame,
    AuxFrame,
    WritePass,
    adr_version,
    Firmware,
    retry,
    endpad,
    rc,
    file,               \* the input stream: [len, pos, eof]
    readbuf,
    buf,
    signalled,
    drive,              \* the drive: [buffered, first] (frames in its buffer,
                        \* first frame position to/from the host)
    sent,               \* every frame image handed to Write, in order
    recovery,           \* write session: the commands issued to recover from
                        \* a fault, in order; read session: the Locate of every
                        \* skip and backtrack and the fwrite of every frame
    built,              \* sequence numbers of the data frames built from the input
    mismatch,           \* "Internal Frame Buffer/Tape buffer mismatch!" was logged
    afterCheck,         \* the step ended in CheckWrittenFrames
    faults,             \* faults injected so far
    tape,               \* read session: the frames on tape from StartFrame on
    CurrentSeqNo,
    eof,
    StartFrameSet,      \* the start frame was given on the command line
    out,                \* read session: what was written to the output sink
    input,              \* a function exercised alone: its arguments
    result              \* a function exercised alone: what it returned

ledgerVars == <<ledger, pushed, lastDel>>
writeRegs == <<CurrentTapeBuffer, CurrentBuffer, Firmware, endpad, rc, file,
               readbuf, built, mismatch, afterCheck, sent>>
writeVars == <<writeRegs, recovery>>
readVars == <<tape, CurrentSeqNo, eof, StartFrameSet, out>>
sessionVars == <<CurrentFrame, AuxFrame, WritePass, adr_version, retry, buf,
                 signalled, drive, faults>>
unitVars == <<input, result>>
vars == <<mode, pc, ledgerVars, writeVars, readVars, sessionVars, unitVars>>

NoDel == [called |-> FALSE, n |-> 0, before |-> <<>>, ok |-> TRUE]

\* values of the variables a run does not use
IdleWrite ==
    /\ CurrentTapeBuffer = 0 /\ CurrentBuffer = 0 /\ Firmware = 0
    /\ endpad = 0 /\ rc = 0 /\ file = [len |-> 0, pos |-> 0, eof |-> FALSE]
    /\ readbuf = {} /\ built = <<>> /\ mismatch = FALSE
    /\ afterCheck = FALSE /\ sent = <<>> /\ recovery = <<>>
IdleRead ==
    /\ tape = <<>> /\ CurrentSeqNo = 0 /\ eof = 0 /\ StartFrameSet = FALSE /\ out = <<>>
IdleUnit == input = <<>> /\ result = <<>>
IdleSession ==
    /\ CurrentFrame = 0 /\ AuxFrame = AuxRecord(0, 0, 0, 0, 0) /\ WritePass = 0
    /\ adr_version = 0 /\ retry = 0 /\ buf = Image({}, FormatAuxFrame(AuxRecord(0, 0, 0, 0, 0)))
    /\ signalled = 0 /\ drive = [buffered |-> 0, first |-> 0] /\ faults = 0

(***************************************************************************)
(* The ledger alone: any sequence of AddFrameToBuffer and DeleteFrames.    *)
(***************************************************************************)
TestFrame(i) == Image(ZeroBuffer(PayloadSize),
                      FormatAuxFrame(AuxRecord(FrameTypeData, 0, i, 1, PayloadSize)))

InitLedger ==
    /\ mode = "ledger" /\ pc = "ledger"
    /\ ledger = EmptyLedger /\ pushed = <<>> /\ lastDel = NoDel
    /\ IdleWrite /\ IdleRead /\ IdleSession /\ IdleUnit

LedgerPush ==
    /\ mode = "ledger" /\ pc = "ledger"
    /\ faults < MaxPush
    /\ \E a \in MallocChoices(ledger) :
         ledger' = AddFrameToBuffer(ledger, TestFrame(faults), a)
    /\ pushed' = Append(pushed, TestFrame(faults))
    /\ faults' = faults + 1
    /\ lastDel' = NoDel
    /\ UNCHANGED <<mode, unitVars, pc, writeVars, readVars, CurrentFrame, AuxFrame, WritePass,
                   adr_version, retry, buf, signalled, drive>>

\* what a trim of n leaves of the frames pushed and not yet trimmed
TrimPushed(q, n, ok) ==
    IF ok /\ n <= Len(q) THEN SubSeq(q, n + 1, Len(q)) ELSE q

LedgerTrim ==
    /\ mode = "ledger" /\ pc = "ledger"
    /\ \E n \in 0..MaxTrim :
         \E d \in {DeleteFrames(ledger, n)} :
             /\ ledger' = d.L
             /\ lastDel' = [called |-> TRUE, n |-> n, before |-> pushed, ok |-> d.ok]
             /\ pushed' = TrimPushed(pushed, n, d.ok)
             /\ pc' = IF d.crash THEN "crashed" ELSE pc
    /\ UNCHANGED <<mode, unitVars, writeVars, readVars, sessionVars>>

NextLedger == LedgerPush \/ LedgerTrim
SpecLedger == InitLedger /\ [][NextLedger]_vars

\* C5: a trim of n <= (frames pushed and not yet trimmed) succeeds and leaves
\* exactly the frames after the n oldest reachable from the head; a trim of
\* more fails.
C5_TrimDropsOldest ==
    lastDel.called /\ pc = "ledger" =>
        IF lastDel.n <= Len(lastDel.before)
        THEN /\ lastDel.ok
             /\ LedgerFrames(ledger) = SubSeq(lastDel.before, lastDel.n + 1, Len(lastDel.before))
        ELSE ~lastDel.ok

(***************************************************************************)
(* Sense Interpreter.                                                      *)
(***************************************************************************)
Triple(key, asc, ascq) == [key |-> key, asc |-> asc, ascq |-> ascq]

\* a switch that knows the first case only
CheckSenseFirstCase(t) ==
    IF t.key * 65536 + t.asc * 256 + t.ascq = 0 THEN "SNoSense" ELSE "SUnknown"

\* CheckSense: the switch over (SenseKey << 16) | (ASC << 8) | ASCQ
CheckSense(t) ==
    LET v == t.key * 65536 + t.asc * 256 + t.ascq
    IN  CASE v = 0 -> "SNoSense"
          [] v = 336896 -> "SInvalidCDB"            \* 0x052400
          [] v = 132096 -> "SNotReportable"         \* 0x020400
          [] v = 132097 -> "SReadyInProgress"       \* 0x020401
          [] v = 132098 -> "SInitRequired"          \* 0x020402
          [] v = 145920 -> "SNoMedium"              \* 0x023A00
          [] v = 132104 -> "SLongWrite"             \* 0x020408
          [] v = 200960 -> "SUnrecoveredReadError"  \* 0x031100
          [] v = 199680 -> "SMediumWriteError"      \* 0x030C00
          [] v = 337410 -> "SInvalidParameter"      \* 0x052602
          [] v = 403456 -> "SNotReadyToReady"       \* 0x062800
          [] v = 403712 -> "SPowerOnReset"          \* 0x062900
          [] v = 851970 -> "SEndOfMedium"           \* 0x0D0002
          [] v = 524293 -> "SEOD"                   \* 0x080005
          [] OTHER -> "SUnknown"

\* the sense triples the drive of the model answers a Write with
WriteSenses ==
    {Triple(0, 0, 0), Triple(3, 12, 0), Triple(6, 41, 0), Triple(13, 0, 2),
     Triple(4, 68, 0)}
\* the sense triples the drive of the model answers a Read with
ReadSenses ==
    {Triple(0, 0, 0), Triple(3, 17, 0), Triple(8, 0, 5), Triple(4, 68, 0)}
\* byte 9 of the sense buffer of a medium write error
SkipBytes == {0, 3}

(***************************************************************************)
(* The write session of main().                                            *)
(***************************************************************************)
FirmwareRevs == {10500, 10600}
AdrVersions == {1002, 1004}
InputLengths == {0, 1, 40000, 65536}
HeaderPasses == {1}

second_cfg == IF adr_version < 1004 THEN SecondCfg11 ELSE SecondCfg12
\* the first frame of user data: 10, 16 for ADR before 1.2, or the frame
\* given with the -s option (StartFrame = atoi(optarg)), which the session
\* that writes up to the secondary configuration area is started with
StartFrame ==
    IF mode = "area" THEN second_cfg - AreaLead
    ELSE IF adr_version < 1004 THEN StartFrame11 ELSE UserPartition

HeaderAux(pass) == AuxRecord(FrameTypeHeader, pass, 0, 0, 0)

\* the faults a run may inject: a write session a few, a session on a
\* medium that fails every Write of user data as many as MaxRetries
FaultBudget == IF mode \in {"retry", "drain", "reread"} THEN MaxRetries ELSE MaxFaults
\* how many of the three commands of a SkipLocate the drive answers; on the
\* failing medium either none or all of them
Answered == IF mode = "retry" THEN {0, 3} ELSE 0..3

StartOfWrite ==
    /\ pc = "cfg1"
    /\ ledger = EmptyLedger /\ pushed = <<>> /\ lastDel = NoDel
    /\ CurrentTapeBuffer \in 0..MaxInitBuf
    /\ CurrentBuffer = 0
    /\ Firmware \in FirmwareRevs
    /\ adr_version \in AdrVersions
    /\ \E hp \in HeaderPasses :
         /\ WritePass = hp + 1
         /\ AuxFrame = HeaderAux(65535)
         /\ buf = Image(StaleBuffer(PayloadSize), FormatAuxFrame(HeaderAux(65535)))
    /\ endpad = 0 /\ rc = 0 /\ retry = 0 /\ signalled = 0
    /\ \E len \in InputLengths : file = [len |-> len, pos |-> 0, eof |-> FALSE]
    /\ readbuf = StaleBuffer(ChunkSize)
    /\ CurrentFrame = ConfigFrame
    /\ drive = [buffered |-> 0, first |-> ConfigFrame]
    /\ sent = <<>> /\ built = <<>> /\ mismatch = FALSE /\ afterCheck = FALSE
    /\ recovery = <<>>
    /\ faults = 0
    /\ IdleUnit
    /\ IdleRead

InitWrite == mode = "write" /\ StartOfWrite

\* one line of the log of frames handed to Write
Sent(image, how, sense) ==
    [FrameType |-> image.aux.FrameType, FrameSequenceNumber |-> image.aux.FrameSequenceNumber,
     size |-> image.aux.size, payload |-> image.payload, how |-> how, sense |-> sense]

Replayed(frames) == [i \in 1..Len(frames) |-> Sent(frames[i], "replay", "SNoSense")]

\* the commands of that Locate, when it is made
SecondCfgCommands(made) ==
    IF made THEN <<[cmd |-> "Flush", arg |-> 0], [cmd |-> "WaitForReady", arg |-> 0],
                   [cmd |-> "Locate", arg |-> AfterSecondCfg],
                   [cmd |-> "WaitForReady", arg |-> 0]>>
    ELSE <<>>

\* Locate(0xBB8, true) when the next frame would be the first of the secondary
\* configuration area: Flush empties the drive's buffer.
SkipSecondCfg(cf, drv) ==
    IF cf = second_cfg
    THEN [CurrentFrame |-> AfterSecondCfg, drive |-> [buffered |-> 0, first |-> AfterSecondCfg]]
    ELSE [CurrentFrame |-> cf, drive |-> drv]

\* One pass of a configuration-frame loop (frames 5..9, then second_cfg ..
\* second_cfg+4): Write, AddFrameToBuffer, CheckWrittenFrames, CurrentFrame++;
\* after the last frame of a loop Flush, WaitForReady and the Locate of the
\* next area.
WriteConfigFrame ==
    /\ mode \in {"write", "retry", "drain", "area"} /\ pc \in {"cfg1", "cfg2"}
    /\ \E cur \in 0..Min(drive.buffered + 1, DriveCap), a \in MallocChoices(ledger) :
         \E c \in {CheckWrittenFrames(AddFrameToBuffer(ledger, buf, a), 1,
                                       CurrentTapeBuffer, cur)} :
         LET cf == CurrentFrame + 1
             last1 == pc = "cfg1" /\ cf = UserPartition
             last2 == pc = "cfg2" /\ cf = second_cfg + 5
         IN  /\ ledger' = c.L
             /\ CurrentTapeBuffer' = c.previousFrames
             /\ mismatch' = (mismatch \/ ~c.ok)
             /\ sent' = Append(sent, Sent(buf, "write", "SNoSense"))
             /\ pc' = IF c.crash THEN "crashed"
                      ELSE IF last1 THEN "cfg2" ELSE IF last2 THEN "stream" ELSE pc
             /\ CurrentFrame' = IF last1 THEN second_cfg ELSE IF last2 THEN StartFrame ELSE cf
             /\ drive' = IF last1 THEN [buffered |-> 0, first |-> second_cfg]
                         ELSE IF last2 THEN [buffered |-> 0, first |-> StartFrame]
                         ELSE [buffered |-> cur, first |-> drive.first + 1]
             /\ AuxFrame' = IF last2 THEN AuxRecord(FrameTypeData, WritePass % 65536, 0, 1, 0)
                            ELSE AuxFrame
    /\ afterCheck' = TRUE
    /\ UNCHANGED <<mode, unitVars, pushed, lastDel, CurrentBuffer, Firmware, recovery, endpad, rc, file,
                   readbuf, built, readVars, WritePass, adr_version, retry, buf,
                   signalled, faults>>

\* fread(readbuf, 1, n, fFile): the count read, and the stream after it; the
\* end-of-file indicator is set when fewer than n bytes were there.
Fread(f, n) ==
    LET got == Min(n, f.len - f.pos)
    IN  [rc |-> got, file |-> [len |-> f.len, pos |-> f.pos + got, eof |-> f.eof \/ got < n]]

\* The body of `if (!retry)` in the StreamingWrite loop: refill readbuf every
\* fourth frame, copy one payload into buf, choose the size of table entry 0,
\* format the auxiliary record.
BuildFrame ==
    LET seq == AuxFrame.FrameSequenceNumber
        refill == seq % 4 = 0
        r == Fread(file, ChunkSize)
        rc1 == IF refill THEN r.rc ELSE rc
        file1 == IF refill THEN r.file ELSE file
        rb1 == IF refill THEN Overwrite(readbuf, 0, rc1, "data", file.pos) ELSE readbuf
        short == refill /\ rc1 < ChunkSize
        rb2 == IF short THEN Overwrite(rb1, 0, ChunkSize - rc1, "zero", 0) ELSE rb1
        endpad1 == IF refill THEN (IF short THEN rc1 \div PayloadSize ELSE endpad)
                   ELSE IF endpad # 0 THEN endpad - 1 ELSE endpad
        base == PayloadSize * (seq % 4)
        size == IF file1.eof /\ endpad1 = 0 THEN rc1 % PayloadSize ELSE PayloadSize
        aux == [AuxFrame EXCEPT !.size = size]
    IN  [rc |-> rc1, endpad |-> endpad1, file |-> file1, readbuf |-> rb2, AuxFrame |-> aux,
         buf |-> Image(Slice(rb2, base, base + PayloadSize), FormatAuxFrame(aux)),
         built |-> Append(built, seq)]

\* the frame the loop pass writes: a new one, or on a retry the one in buf
FrameToWrite ==
    IF retry = 0 THEN BuildFrame
    ELSE [rc |-> rc, endpad |-> endpad, file |-> file, readbuf |-> readbuf,
          AuxFrame |-> AuxFrame, buf |-> buf, built |-> built]

\* while ((feof(fFile) == 0 || endpad) && !signalled)
StreamingWriteCond == (~file.eof \/ endpad # 0) /\ signalled = 0

\* a loop that numbers every second frame only
NextSequenceNumberEven(aux) ==
    [aux EXCEPT !.FrameSequenceNumber = IF @ % 2 = 0 THEN @ + 1 ELSE @]

\* case SNoSense: AuxFrame.FrameSequenceNumber++
NextSequenceNumber(aux) == [aux EXCEPT !.FrameSequenceNumber = @ + 1]

\* StreamingWrite, case SNoSense: the drive took the frame.
WriteFrameOk ==
    /\ mode \in {"write", "drain", "area"} /\ pc = "stream" /\ StreamingWriteCond
    /\ \E t \in {x \in WriteSenses : CheckSense(x) = "SNoSense"},
          cur \in 0..Min(drive.buffered + 1, DriveCap),
          a \in MallocChoices(ledger) :
         \E b \in {FrameToWrite} :
         \E c \in {CheckWrittenFrames(AddFrameToBuffer(ledger, b.buf, a), 1,
                                       CurrentTapeBuffer, cur)},
            s \in {SkipSecondCfg(CurrentFrame + 1,
                                  [buffered |-> cur, first |-> drive.first + 1])} :
             /\ rc' = b.rc /\ endpad' = b.endpad /\ file' = b.file /\ readbuf' = b.readbuf
             /\ buf' = b.buf /\ built' = b.built
             /\ retry' = 0
             /\ ledger' = c.L
             /\ AuxFrame' = NextSequenceNumber(b.AuxFrame)
             /\ CurrentTapeBuffer' = c.previousFrames
             /\ mismatch' = (mismatch \/ ~c.ok)
             /\ sent' = Append(sent, Sent(b.buf, "write", CheckSense(t)))
             /\ CurrentFrame' = s.CurrentFrame
             /\ drive' = s.drive
             /\ pc' = IF c.crash THEN "crashed" ELSE pc
    /\ afterCheck' = TRUE
    /\ UNCHANGED <<mode, unitVars, pushed, lastDel, CurrentBuffer, Firmware, recovery, readVars, WritePass,
                   adr_version, signalled, faults>>

\* one command of a recovery, as the drive sees it
Cmd(c, a) == [cmd |-> c, arg |-> a]

\* the tape position ReadPosition reports: the host position less the
\* frames the drive still buffers
TapePosition(drv) == drv.first - drv.buffered

\* SkipLocate with a Locate that lets the drive throw its buffers away
SkipLocateCommandsNoSkipBit(skip, drv, answered) ==
    SubSeq(<<Cmd("ReadPosition", TapePosition(drv)),
             Cmd("Locate", TapePosition(drv) + skip),
             Cmd("ReadPosition", drv.first + skip)>>,
           1, Min(answered + 1, 3))

\* the commands of SkipLocate when the drive answers `answered` of them:
\* ReadPosition (the last frame position is used), Locate with the SKIP
\* bit, ReadPosition (the first frame position is returned)
SkipLocateCommands(skip, drv, answered) ==
    SubSeq(<<Cmd("ReadPosition", TapePosition(drv)),
             Cmd("Locate SKIP", TapePosition(drv) + skip),
             Cmd("ReadPosition", drv.first + skip)>>,
           1, Min(answered + 1, 3))

\* SkipLocate without its test of the firmware revision
SkipLocateAnyFirmware(skip, drv, answered) ==
    [ret |-> IF answered < 3 THEN 0 ELSE drv.first + skip,
     drive |-> IF answered < 2 THEN drv
               ELSE [buffered |-> drv.buffered, first |-> drv.first + skip],
     commands |-> SkipLocateCommands(skip, drv, answered)]

\* OnStream::SkipLocate: 0 below firmware 1.06 and when the drive leaves
\* one of the three commands unanswered; else Locate with the SKIP bit to
\* (last frame position + skip), the drive keeping its buffered frames, and
\* the first frame position read back.
SkipLocate(skip, drv, answered) ==
    IF ULess(Firmware, SkipLocateFirmware)
    THEN [ret |-> 0, drive |-> drv, commands |-> <<>>]
    ELSE [ret |-> IF answered < 3 THEN 0 ELSE drv.first + skip,
          drive |-> IF answered < 2 THEN drv
                    ELSE [buffered |-> drv.buffered, first |-> drv.first + skip],
          commands |-> SkipLocateCommands(skip, drv, answered)]

\* the Write commands of the replay loop of RequeueData
ReplayCommands(frames) ==
    [i \in 1..Len(frames) |-> Cmd("Write", frames[i].aux.FrameSequenceNumber)]

\* RequeueData after its CheckWrittenFrames returned c: the abort test, then
\* DeleteBuffer, the Locate, WaitForReady and the replay of the frames
\* reachable from TapeBuffer.
Requeue(c, frames, BadFrames, fRetry, drv, cur) ==
    LET stop == c.crash \/ (~fRetry /\ c.previousFrames # c.L.TotalBufferedFrames)
    IN
    [L |-> IF (fRetry \/ c.previousFrames = c.L.TotalBufferedFrames) /\ ~c.crash
              /\ \E i \in 1..Len(frames) : frames[i] = FreedFrame
           THEN [c.L EXCEPT !.ub = TRUE] ELSE c.L,
     previousFrames |-> c.previousFrames,
     ok |-> c.ok,
     outcome |-> IF c.crash THEN "crashed"
                 ELSE IF ~fRetry /\ c.previousFrames # c.L.TotalBufferedFrames THEN "failed"
                 ELSE IF Cyclic(c.L) THEN "hang" ELSE "ok",
     replay |-> IF stop THEN <<>> ELSE frames,
     BadFrames |-> BadFrames,
     commands |-> <<Cmd("RequeueData", BadFrames), Cmd("ShowPosition", TapePosition(drv))>>
                  \o (IF fRetry THEN <<>> ELSE <<Cmd("BufferStatus", cur)>>)
                  \o (IF stop THEN <<>>
                      ELSE (IF fRetry THEN <<>>
                            ELSE <<Cmd("DeleteBuffer", c.previousFrames)>>)
                           \o <<Cmd("Locate", TapePosition(drv) + BadFrames),
                                Cmd("WaitForReady", 0)>>
                           \o ReplayCommands(frames)),
     drive |-> IF stop
               THEN [buffered |-> Min(cur, drv.buffered), first |-> drv.first]
               ELSE [buffered |-> Min(Len(frames), DriveCap),
                     first |-> drv.first - drv.buffered + BadFrames + Len(frames)]]

\* RequeueData with the count cur that BufferStatus reports to its
\* CheckWrittenFrames.  outcome: "ok", "failed" (exit(-1) on the buffer
\* mismatch), "hang" (the replay loop follows a cycle and never ends) or
\* "crashed".
RequeueStep(c, skip, fRetry, drv, cur) ==
    Requeue(c, LedgerFrames(c.L), IF fRetry THEN 0 ELSE skip, fRetry, drv, cur)

RequeueData(L, addedFrames, previousFrames, skip, fRetry, drv, cur) ==
    RequeueStep(IF fRetry
                THEN [L |-> L, ok |-> TRUE, crash |-> FALSE, previousFrames |-> previousFrames]
                ELSE CheckWrittenFrames(L, addedFrames, previousFrames, cur),
                skip, fRetry, drv, cur)

\* StreamingWrite, case SMediumWriteError (falling into STimeoutWaitPos): skip
\* from byte 9 of the sense buffer or 80, SkipLocate, else RequeueData.
WriteFrameMediumError ==
    /\ mode \in {"write", "retry", "area"} /\ pc = "stream" /\ StreamingWriteCond
    /\ faults < FaultBudget
    /\ \E t \in {x \in WriteSenses : CheckSense(x) = "SMediumWriteError"},
          sk \in SkipBytes, cur \in 0..drive.buffered, answered \in Answered :
         \E b \in {FrameToWrite},
            sl \in {SkipLocate(IF sk = 0 THEN DefaultSkip ELSE sk, drive, answered)} :
         \E rq \in {RequeueData(ledger, 0, CurrentTapeBuffer, DefaultSkip, FALSE,
                                 sl.drive, cur)} :
         LET cf == IF sl.ret # 0 THEN sl.ret ELSE CurrentFrame + rq.BadFrames
             drv == IF sl.ret # 0 THEN sl.drive ELSE rq.drive
             stop == sl.ret = 0 /\ rq.outcome # "ok"
             s == IF stop THEN [CurrentFrame |-> CurrentFrame, drive |-> drv]
                  ELSE SkipSecondCfg(cf, drv)
         IN  /\ rc' = b.rc /\ endpad' = b.endpad /\ file' = b.file /\ readbuf' = b.readbuf
             /\ buf' = b.buf /\ built' = b.built /\ AuxFrame' = b.AuxFrame
             /\ retry' = IF stop THEN retry ELSE 1
             /\ ledger' = IF sl.ret # 0 THEN ledger ELSE rq.L
             /\ CurrentTapeBuffer' = IF sl.ret # 0 THEN CurrentTapeBuffer ELSE rq.previousFrames
             /\ mismatch' = (mismatch \/ (sl.ret = 0 /\ ~rq.ok))
             /\ sent' = Append(sent, Sent(b.buf, "write", CheckSense(t)))
                        \o (IF sl.ret # 0 THEN <<>> ELSE Replayed(rq.replay))
             /\ CurrentFrame' = s.CurrentFrame
             /\ drive' = s.drive
             /\ pc' = IF stop THEN rq.outcome ELSE pc
             /\ recovery' = recovery \o <<Cmd("GetLastSense", sk)>> \o sl.commands
                             \o (IF sl.ret # 0 THEN <<>> ELSE rq.commands)
                             \o SecondCfgCommands(~stop /\ cf = second_cfg)
    /\ faults' = faults + 1
    /\ afterCheck' = FALSE
    /\ UNCHANGED <<mode, unitVars, pushed, lastDel, CurrentBuffer, Firmware, readVars, WritePass,
                   adr_version, signalled>>

\* StreamingWrite, case SPowerOnReset: the drive lost its buffer; FlushBuffer
\* finds it empty; Locate(CurrentFrame - TotalBufferedFrames); RequeueData in
\* retry mode replays the ledger from there.
WriteFramePowerOnReset ==
    /\ mode = "write" /\ pc = "stream" /\ StreamingWriteCond
    /\ faults < MaxFaults
    /\ \E t \in {x \in WriteSenses : CheckSense(x) = "SPowerOnReset"} :
         \E b \in {FrameToWrite},
            rq \in {RequeueData(ledger, 0, CurrentTapeBuffer, 0, TRUE,
                                 [buffered |-> 0,
                                  first |-> CurrentFrame - ledger.TotalBufferedFrames], 0)} :
         LET stop == rq.outcome # "ok"
             s == IF stop THEN [CurrentFrame |-> CurrentFrame, drive |-> rq.drive]
                  ELSE SkipSecondCfg(CurrentFrame, rq.drive)
         IN  /\ rc' = b.rc /\ endpad' = b.endpad /\ file' = b.file /\ readbuf' = b.readbuf
             /\ buf' = b.buf /\ built' = b.built /\ AuxFrame' = b.AuxFrame
             /\ retry' = IF stop THEN retry ELSE 1
             /\ ledger' = rq.L
             /\ sent' = Append(sent, Sent(b.buf, "write", CheckSense(t))) \o Replayed(rq.replay)
             /\ CurrentFrame' = s.CurrentFrame
             /\ drive' = s.drive
             /\ pc' = IF stop THEN rq.outcome ELSE pc
             /\ recovery' = recovery
                    \o <<Cmd("WaitForReady", 0), Cmd("DataTransferMode", 0),
                         Cmd("VendorID", 0), Cmd("FlushBuffer", 0),
                         Cmd("Locate", CurrentFrame - ledger.TotalBufferedFrames),
                         Cmd("WaitForReady", 0)>>
                    \o rq.commands
                    \o SecondCfgCommands(~stop /\ CurrentFrame = second_cfg)
    /\ faults' = faults + 1
    /\ afterCheck' = FALSE
    /\ UNCHANGED <<mode, unitVars, pushed, lastDel, CurrentTapeBuffer, CurrentBuffer, Firmware, mismatch,
                   readVars, WritePass, adr_version, signalled>>

\* StreamingWrite, case SEndOfMedium and default: return.
WriteFrameStop ==
    /\ mode = "write" /\ pc = "stream" /\ StreamingWriteCond
    /\ faults < MaxFaults
    /\ \E t \in {x \in WriteSenses : CheckSense(x) \in {"SEndOfMedium", "SUnknown"}} :
         \E b \in {FrameToWrite} :
             /\ rc' = b.rc /\ endpad' = b.endpad /\ file' = b.file /\ readbuf' = b.readbuf
             /\ buf' = b.buf /\ built' = b.built /\ AuxFrame' = b.AuxFrame
             /\ sent' = Append(sent, Sent(b.buf, "write", CheckSense(t)))
    /\ pc' = "failed"
    /\ faults' = faults + 1
    /\ afterCheck' = FALSE
    /\ UNCHANGED <<mode, unitVars, ledgerVars, CurrentTapeBuffer, CurrentBuffer, Firmware, recovery, mismatch,
                   readVars, CurrentFrame, WritePass, adr_version, retry, signalled, drive>>

\* After the loop: the end-of-data frame is formatted, written, pushed and
\* trimmed.
WriteEOD ==
    /\ mode \in {"write", "drain", "area"} /\ pc = "stream" /\ ~StreamingWriteCond
    /\ \E cur \in 0..Min(drive.buffered + 1, DriveCap), a \in MallocChoices(ledger) :
         \E aux \in {[AuxFrame EXCEPT !.FrameType = FrameTypeEOD]} :
         \E image \in {Image(ZeroBuffer(PayloadSize), FormatAuxFrame(aux))} :
         \E c \in {CheckWrittenFrames(AddFrameToBuffer(ledger, image, a), 1,
                                       CurrentTapeBuffer, cur)} :
             /\ AuxFrame' = aux
             /\ buf' = image
             /\ ledger' = c.L
             /\ CurrentTapeBuffer' = c.previousFrames
             /\ mismatch' = (mismatch \/ ~c.ok)
             /\ sent' = Append(sent, Sent(image, "write", "SNoSense"))
             /\ drive' = [buffered |-> cur, first |-> drive.first + 1]
             /\ pc' = IF c.crash THEN "crashed" ELSE "waitforwrite"
    /\ afterCheck' = TRUE
    /\ UNCHANGED <<mode, unitVars, pushed, lastDel, CurrentBuffer, Firmware, recovery, endpad, rc, file, readbuf,
                   built, readVars, CurrentFrame, WritePass, adr_version, retry, signalled,
                   faults>>

\* WaitForWrite, before the loop: BufferStatus.
WaitForWriteEnter ==
    /\ mode \in {"write", "drain"} /\ pc = "waitforwrite"
    /\ \E cur \in 0..drive.buffered :
         /\ CurrentBuffer' = cur
         /\ drive' = [drive EXCEPT !.buffered = cur]
    /\ pc' = "drain"
    /\ afterCheck' = FALSE
    /\ UNCHANGED <<mode, unitVars, ledgerVars, CurrentTapeBuffer, Firmware, recovery, endpad, rc, file, readbuf,
                   built, mismatch, sent, readVars, CurrentFrame, AuxFrame, WritePass,
                   adr_version, retry, buf, signalled, faults>>

\* WaitForWrite, one pass on SNoSense: Write(NULL, 0), CheckWrittenFrames,
\* sleep, BufferStatus.
WaitForWritePoll ==
    /\ mode = "write" /\ pc = "drain" /\ CurrentBuffer > 0
    /\ \E t \in {x \in WriteSenses : CheckSense(x) = "SNoSense"},
          cur1 \in 0..drive.buffered :
         \E cur2 \in 0..cur1 :
           \E c \in {CheckWrittenFrames(ledger, 0, CurrentTapeBuffer, cur1)} :
               /\ ledger' = c.L
               /\ CurrentTapeBuffer' = c.previousFrames
               /\ mismatch' = (mismatch \/ ~c.ok)
               /\ CurrentBuffer' = cur2
               /\ drive' = [drive EXCEPT !.buffered = cur2]
               /\ pc' = IF c.crash THEN "crashed" ELSE pc
    /\ afterCheck' = FALSE
    /\ UNCHANGED <<mode, unitVars, pushed, lastDel, Firmware, recovery, endpad, rc, file, readbuf, built, sent,
                   readVars, CurrentFrame, AuxFrame, WritePass, adr_version, retry, buf,
                   signalled, faults>>

\* WaitForWrite, one pass on SMediumWriteError: RequeueData with skip 80,
\* sleep, BufferStatus.
WaitForWriteMediumError ==
    /\ mode \in {"write", "drain"} /\ pc = "drain" /\ CurrentBuffer > 0
    /\ faults < FaultBudget
    /\ \E t \in {x \in WriteSenses : CheckSense(x) = "SMediumWriteError"},
          sk \in SkipBytes, cur1 \in 0..drive.buffered :
         \E rq \in {RequeueData(ledger, 0, CurrentTapeBuffer, DefaultSkip, FALSE, drive, cur1)} :
             \E cur2 \in 0..rq.drive.buffered :
               /\ recovery' = recovery \o <<Cmd("GetLastSense", sk)>> \o rq.commands
               /\ ledger' = rq.L
               /\ CurrentTapeBuffer' = rq.previousFrames
               /\ mismatch' = (mismatch \/ ~rq.ok)
               /\ sent' = sent \o Replayed(rq.replay)
               /\ CurrentBuffer' = IF rq.outcome = "ok" THEN cur2 ELSE CurrentBuffer
               /\ drive' = IF rq.outcome = "ok" THEN [rq.drive EXCEPT !.buffered = cur2]
                           ELSE rq.drive
               /\ pc' = IF rq.outcome = "ok" THEN pc ELSE rq.outcome
    /\ faults' = faults + 1
    /\ afterCheck' = FALSE
    /\ UNCHANGED <<mode, unitVars, pushed, lastDel, Firmware, endpad, rc, file, readbuf, built,
                   readVars, CurrentFrame, AuxFrame, WritePass, adr_version, retry, buf,
                   signalled>>

\* WaitForWrite, default: exit(-1).
WaitForWriteStop ==
    /\ mode = "write" /\ pc = "drain" /\ CurrentBuffer > 0
    /\ faults < MaxFaults
    /\ \E t \in {x \in WriteSenses :
                   CheckSense(x) \notin {"SNoSense", "SMediumWriteError"}} : TRUE
    /\ pc' = "failed"
    /\ faults' = faults + 1
    /\ afterCheck' = FALSE
    /\ UNCHANGED <<mode, unitVars, ledgerVars, CurrentTapeBuffer, CurrentBuffer, Firmware, recovery, endpad, rc,
                   file, readbuf, built, mismatch, sent, readVars, CurrentFrame, AuxFrame,
                   WritePass, adr_version, retry, buf, signalled, drive>>

\* WaitForWrite returns when the drive reports an empty buffer; the session
\* ends (ShowPosition, WaitForReady, no rewind requested).
WaitForWriteReturn ==
    /\ mode = "write" /\ pc = "drain" /\ CurrentBuffer = 0
    /\ pc' = IF signalled # 0 THEN "raised" ELSE "done"
    /\ afterCheck' = FALSE
    /\ UNCHANGED <<mode, unitVars, ledgerVars, CurrentTapeBuffer, CurrentBuffer, Firmware, recovery, endpad, rc,
                   file, readbuf, built, mismatch, sent, readVars, sessionVars>>

NextWrite ==
    \/ WriteConfigFrame
    \/ WriteFrameOk
    \/ WriteFrameMediumError
    \/ WriteFramePowerOnReset
    \/ WriteFrameStop
    \/ WriteEOD
    \/ WaitForWriteEnter
    \/ WaitForWritePoll
    \/ WaitForWriteMediumError
    \/ WaitForWriteStop
    \/ WaitForWriteReturn

SpecWrite == InitWrite /\ [][NextWrite]_vars

\* a write session on a medium that fails every Write of user data with a
\* medium write error: the configuration frames are written, then every
\* pass of the streaming loop ends in the recovery
InitRetry == mode = "retry" /\ StartOfWrite /\ file.len = 65536
NextRetry == WriteConfigFrame \/ WriteFrameMediumError
SpecRetry == InitRetry /\ [][NextRetry]_vars

\* a write session of an empty input whose drain phase gets a medium write
\* error for every Write(NULL, 0) of WaitForWrite
InitDrain ==
    /\ mode = "drain" /\ StartOfWrite /\ file.len = 0
    /\ Firmware = 10500 /\ adr_version = 1004
NextDrain ==
    \/ WriteConfigFrame \/ WriteFrameOk \/ WriteEOD \/ WaitForWriteEnter
    \/ WaitForWriteMediumError
SpecDrain == InitDrain /\ [][NextDrain]_vars

\* a write session started, with the -s option, AreaLead frames before the
\* secondary configuration area
InitArea ==
    /\ mode = "area" /\ StartOfWrite /\ file.len = 65536
    /\ CurrentTapeBuffer = 0
NextArea == WriteConfigFrame \/ WriteFrameOk \/ WriteFrameMediumError \/ WriteEOD
SpecArea == InitArea /\ [][NextArea]_vars

\* malloc always finds storage within the heap of the model
HeapSuffices == pc \notin {"crashed", "failed", "hang", "done"} => MallocChoices(ledger) # {}

(***************************************************************************)
(* The read session of main().                                             *)
(***************************************************************************)
\* frames on tape
DataFrame(seq, pass, size, kind) ==
    Image({Seg(0, PayloadSize, kind, IF kind = "data" THEN PayloadSize * seq ELSE 0)},
          FormatAuxFrame(AuxRecord(FrameTypeData, pass, seq, 1, size)))
EODFrame(seq, pass) ==
    Image(ZeroBuffer(PayloadSize), FormatAuxFrame(AuxRecord(FrameTypeEOD, pass, seq, 1, 0)))
HeaderFrame(pass) ==
    Image(StaleBuffer(PayloadSize), FormatAuxFrame(HeaderAux(pass)))

\* the stream a write session of pass `pass` recorded from sequence number
\* s on: n data frames and the end-of-data frame
CleanTape(s, n, pass) ==
    [i \in 1..n |-> DataFrame(s + i - 1, pass, PayloadSize, "data")]
    \o <<EODFrame(s + n, pass)>>

\* tape t with frame f put in front of its k-th frame, and t without its
\* k-th frame
InsertAt(t, k, f) == SubSeq(t, 1, k - 1) \o <<f>> \o SubSeq(t, k, Len(t))
RemoveAt(t, k) == SubSeq(t, 1, k - 1) \o SubSeq(t, k + 1, Len(t))

\* the write pass counter of the header of the tapes of the model
TapePass == 2

\* frames found between those of a stream: a copy of an earlier frame left
\* by a write recovery, a frame of an earlier pass, a frame of no known
\* type, a frame whose auxiliary record has no format marker
StrayFrames ==
    {DataFrame(q, TapePass, PayloadSize, "stale") : q \in 0..MaxFrames}
    \cup {DataFrame(q, TapePass - 1, PayloadSize, "stale") : q \in 0..MaxFrames}
    \cup {Image(StaleBuffer(PayloadSize),
                FormatAuxFrame(AuxRecord(0, TapePass, 0, 0, 0)))}
    \cup {Image(StaleBuffer(PayloadSize),
                [FormatAuxFrame(AuxRecord(FrameTypeData, TapePass, 0, 1, PayloadSize))
                   EXCEPT !.marker = 1])}

CleanTapes == {CleanTape(s, n, TapePass) : s \in 0..1, n \in 0..MaxFrames}

\* a clean tape with one stray frame in front of one of its frames, or with
\* one of its data frames missing
Strayed(t) == {InsertAt(t, k, f) : k \in 1..Len(t), f \in StrayFrames}
Gapped(t) == {RemoveAt(t, k) : k \in 1..(Len(t) - 1)}

Tapes ==
    CleanTapes \cup UNION {Strayed(t) : t \in CleanTapes}
               \cup UNION {Gapped(t) : t \in CleanTapes}

\* `unsigned int WritePass` is never initialised and the header sets its two
\* low bytes only: the two high bytes are whatever the stack held.
WritePassValues(headerPass) == {headerPass, 65536 + headerPass}

InitRead ==
    /\ mode = "read" /\ pc = "read"
    /\ ledger = EmptyLedger /\ pushed = <<>> /\ lastDel = NoDel
    /\ IdleWrite
    /\ adr_version \in AdrVersions
    /\ StartFrameSet \in BOOLEAN
    /\ tape \in Tapes
    /\ WritePass \in WritePassValues(TapePass)
    /\ AuxFrame = HeaderAux(TapePass)
    /\ buf = HeaderFrame(TapePass)
    /\ CurrentFrame = StartFrame
    /\ drive = [buffered |-> 0, first |-> StartFrame]
    /\ CurrentSeqNo = 0 /\ eof = 0 /\ out = <<>>
    /\ retry = 0 /\ signalled = 0 /\ faults = 0
    /\ IdleUnit

\* the frame at tape position pos; positions 5 .. StartFrame - 1 hold
\* header frames
OnTape(pos) == pos >= ConfigFrame /\ pos < StartFrame + Len(tape)
FrameAt(t, pos) ==
    IF pos >= StartFrame THEN t[pos - StartFrame + 1] ELSE HeaderFrame(TapePass)

\* the session's registers
Registers ==
    [CurrentFrame |-> CurrentFrame, CurrentSeqNo |-> CurrentSeqNo, retry |-> retry,
     eof |-> eof, AuxFrame |-> AuxFrame, buf |-> buf, out |-> out, recovery |-> recovery]

\* the Locate target of a backtrack: positions second_cfg+1 .. second_cfg+5
\* are moved back by 6 (adr_version < 10004 holds for every version)
JumpBack(cf) ==
    IF cf > second_cfg /\ cf <= second_cfg + 5
    THEN (IF adr_version < 10004 THEN cf - 6 ELSE cf - 5)
    ELSE cf

\* buf[33280] after a Read: the payload region, then the 512 bytes of the
\* formatted auxiliary record
FrameBytes(image) == image.payload \cup {Seg(PayloadSize, FrameSize, "aux", 0)}

\* fwrite(buf, 1, size, fil): the bytes, with the sequence number and the
\* write pass counter of the frame they were taken from
Emitted(aux, image) ==
    [seq |-> aux.FrameSequenceNumber, pass |-> aux.WritePassCounter, size |-> aux.size,
     bytes |-> Slice(FrameBytes(image), 0, aux.size)]

\* the read loop without its test of the write pass counter
StaleFrameUntested(aux, pass) == FALSE

\* if (AuxFrame.PartitionDescription.WritePassCounter != WritePass)
StaleFrame(aux, pass) == aux.WritePassCounter # pass

\* the cursor after `if (CurrentSeqNo == 0 && StartFrameSet)`
Cursor(r, aux, sfs) ==
    IF r.CurrentSeqNo = 0 /\ sfs THEN aux.FrameSequenceNumber ELSE r.CurrentSeqNo

\* the read loop without its test for a low sequence number
LowFrameUntested(aux, cursor) == FALSE

\* if (AuxFrame.FrameSequenceNumber < CurrentSeqNo)
LowFrame(aux, cursor) == aux.FrameSequenceNumber < cursor

\* if (AuxFrame.FrameSequenceNumber > CurrentSeqNo)
HighFrame(aux, cursor) == aux.FrameSequenceNumber > cursor

\* an end-of-data frame that ends the session whatever retry holds
EndOfDataFrameAlways(r) == 1

\* case 0x0100: if (!retry) eof = 1;
EndOfDataFrame(r) == IF r.retry = 0 THEN 1 ELSE r.eof

\* The loop body after a Read answered with no sense: CurrentFrame++,
\* unFormatAuxFrame, the switch over the frame type.  r holds the registers,
\* aux the decoded record, image the frame read.
Dispatch(r, aux, image, pass, sfs) ==
    IF aux.FrameType = FrameTypeData
    THEN IF StaleFrame(aux, pass)
         THEN [r EXCEPT !.CurrentFrame = @ + 1, !.AuxFrame = aux, !.buf = image]
         ELSE IF LowFrame(aux, Cursor(r, aux, sfs))
         THEN [r EXCEPT !.CurrentFrame = @ + 1, !.AuxFrame = aux, !.buf = image,
                        !.CurrentSeqNo = Cursor(r, aux, sfs)]
         ELSE IF HighFrame(aux, Cursor(r, aux, sfs))
         THEN IF r.retry > 5
              THEN [r EXCEPT !.CurrentFrame = @ + 1, !.AuxFrame = aux, !.buf = image,
                             !.CurrentSeqNo = Cursor(r, aux, sfs),
                             !.retry = @ + 1, !.eof = 1]
              ELSE [r EXCEPT !.CurrentFrame =
                                JumpBack(@ + 1 - (aux.FrameSequenceNumber
                                                  - Cursor(r, aux, sfs) + 1)),
                             !.CurrentSeqNo = Cursor(r, aux, sfs),
                             !.AuxFrame = aux, !.buf = image, !.retry = @ + 1,
                             !.recovery =
                                Append(@, [cmd |-> "Locate back",
                                           arg |-> JumpBack(r.CurrentFrame + 1
                                                      - (aux.FrameSequenceNumber
                                                         - Cursor(r, aux, sfs) + 1))])]
         ELSE [r EXCEPT !.CurrentFrame = @ + 1, !.AuxFrame = aux, !.buf = image,
                        !.CurrentSeqNo = aux.FrameSequenceNumber + 1, !.retry = 0,
                        !.out = Append(@, Emitted(aux, image)),
                        !.recovery = Append(@, [cmd |-> "fwrite",
                                                arg |-> aux.FrameSequenceNumber])]
    ELSE IF aux.FrameType = FrameTypeEOD
    THEN [r EXCEPT !.CurrentFrame = @ + 1, !.AuxFrame = aux, !.buf = image,
                   !.eof = EndOfDataFrame(r)]
    ELSE [r EXCEPT !.CurrentFrame = @ + 1, !.AuxFrame = aux, !.buf = image]

ReadStep(r, image, pass, sfs) ==
    Dispatch(r, unFormatAuxFrame(image.aux, r.AuxFrame), image, pass, sfs)

\* One pass of the read loop, Read answered with no sense.
ReadFrame ==
    /\ mode \in {"read", "reread", "emit"} /\ pc = "read" /\ eof = 0 /\ signalled = 0
    /\ OnTape(CurrentFrame)
    /\ \E t \in {x \in ReadSenses : CheckSense(x) = "SNoSense"} :
       \E r \in {ReadStep(Registers, FrameAt(tape, CurrentFrame), WritePass, StartFrameSet)} :
         /\ CurrentFrame' = r.CurrentFrame
         /\ CurrentSeqNo' = r.CurrentSeqNo
         /\ retry' = r.retry
         /\ eof' = r.eof
         /\ AuxFrame' = r.AuxFrame
         /\ buf' = r.buf
         /\ out' = r.out
         /\ recovery' = r.recovery
         /\ drive' = [buffered |-> 0, first |-> r.CurrentFrame]
    /\ UNCHANGED <<mode, unitVars, pc, ledgerVars, writeRegs, tape, StartFrameSet, WritePass,
                   adr_version, signalled, faults>>

\* One pass of the read loop, case SUnrecoveredReadError: after more than 5
\* tries give up, else go on at the next frame.
ReadError ==
    /\ mode \in {"read", "reread"} /\ pc = "read" /\ eof = 0 /\ signalled = 0
    /\ OnTape(CurrentFrame)
    /\ faults < FaultBudget
    /\ \E t \in {x \in ReadSenses : CheckSense(x) = "SUnrecoveredReadError"} :
         /\ retry' = retry + 1
         /\ eof' = IF retry > 5 THEN 1 ELSE eof
         /\ CurrentFrame' = IF retry > 5 THEN CurrentFrame ELSE CurrentFrame + 1
         /\ drive' = [buffered |-> 0,
                      first |-> IF retry > 5 THEN drive.first ELSE CurrentFrame + 1]
         /\ recovery' = IF retry > 5 THEN recovery
                         ELSE Append(recovery, [cmd |-> "Locate next",
                                                arg |-> CurrentFrame + 1])
    /\ faults' = faults + 1
    /\ UNCHANGED <<mode, unitVars, pc, ledgerVars, writeRegs, tape, CurrentSeqNo, StartFrameSet, out,
                   AuxFrame, WritePass, adr_version, buf, signalled>>

\* One pass of the read loop, case SEOD: the drive found no recorded frame;
\* Locate(CurrentFrame += 5).
ReadEndOfData ==
    /\ mode \in {"read", "reread"} /\ pc = "read" /\ eof = 0 /\ signalled = 0
    /\ ~OnTape(CurrentFrame)
    /\ CurrentFrame < StartFrame + Len(tape) + 5 * MaxSkips
    /\ \E t \in {x \in ReadSenses : CheckSense(x) = "SEOD"} :
         /\ CurrentFrame' = CurrentFrame + 5
         /\ drive' = [buffered |-> 0, first |-> CurrentFrame + 5]
         /\ recovery' = Append(recovery, [cmd |-> "Locate +5", arg |-> CurrentFrame + 5])
    /\ UNCHANGED <<mode, unitVars, pc, ledgerVars, writeRegs, readVars, AuxFrame, WritePass,
                   adr_version, retry, buf, signalled, faults>>

\* One pass of the read loop, default: return -1.
ReadStop ==
    /\ mode = "read" /\ pc = "read" /\ eof = 0 /\ signalled = 0
    /\ OnTape(CurrentFrame)
    /\ faults < MaxFaults
    /\ \E t \in {x \in ReadSenses :
                   CheckSense(x) \notin {"SNoSense", "SUnrecoveredReadError", "SEOD"}} : TRUE
    /\ pc' = "failed"
    /\ faults' = faults + 1
    /\ UNCHANGED <<mode, unitVars, ledgerVars, writeVars, readVars, CurrentFrame, AuxFrame, WritePass,
                   adr_version, retry, buf, signalled, drive>>

\* The loop ends: the output is closed, return 0.
ReadDone ==
    /\ mode \in {"read", "reread", "emit"} /\ pc = "read" /\ (eof # 0 \/ signalled # 0)
    /\ pc' = "done"
    /\ UNCHANGED <<mode, unitVars, ledgerVars, writeVars, readVars, sessionVars>>

NextRead == ReadFrame \/ ReadError \/ ReadEndOfData \/ ReadStop \/ ReadDone
SpecRead == InitRead /\ [][NextRead]_vars

\* a read session of a tape with a frame missing, on a drive that answers
\* Read with an unrecovered read error as often as it likes
InitReread ==
    /\ mode = "reread" /\ pc = "read"
    /\ ledger = EmptyLedger /\ pushed = <<>> /\ lastDel = NoDel
    /\ IdleWrite /\ IdleUnit
    /\ adr_version \in AdrVersions /\ StartFrameSet = FALSE
    /\ tape \in CleanTapes \cup UNION {Gapped(t) : t \in CleanTapes}
    /\ WritePass = TapePass
    /\ AuxFrame = HeaderAux(TapePass)
    /\ buf = HeaderFrame(TapePass)
    /\ CurrentFrame = StartFrame
    /\ drive = [buffered |-> 0, first |-> StartFrame]
    /\ CurrentSeqNo = 0 /\ eof = 0 /\ out = <<>>
    /\ retry = 0 /\ signalled = 0 /\ faults = 0
NextReread == ReadFrame \/ ReadError \/ ReadEndOfData \/ ReadDone
SpecReread == InitReread /\ [][NextReread]_vars

\* the sizes and entry counts a data frame of a tape of any origin may
\* record in its data access table
EmitSizes == {0, 1, PayloadSize, PayloadSize + 1, FrameSize}
EmitEntries == {0, 1, 16, 17}
EmitFrame(seq, size, n) ==
    Image({Seg(0, PayloadSize, "data", PayloadSize * seq)},
          [FormatAuxFrame(AuxRecord(FrameTypeData, TapePass, seq, 1, size))
             EXCEPT !.nEntries = n])
EmitTapes ==
    {<<EmitFrame(0, s1, n1), EmitFrame(1, s2, n2), EODFrame(2, TapePass)>> :
        s1 \in EmitSizes, s2 \in EmitSizes, n1 \in EmitEntries, n2 \in EmitEntries}

\* a read session, without read faults, of a tape whose two data frames
\* record any size and any number of table entries
InitEmit ==
    /\ mode = "emit" /\ pc = "read"
    /\ ledger = EmptyLedger /\ pushed = <<>> /\ lastDel = NoDel
    /\ IdleWrite /\ IdleUnit
    /\ adr_version = 1004 /\ StartFrameSet = FALSE
    /\ tape \in EmitTapes
    /\ WritePass = TapePass
    /\ AuxFrame = HeaderAux(TapePass)
    /\ buf = HeaderFrame(TapePass)
    /\ CurrentFrame = StartFrame
    /\ drive = [buffered |-> 0, first |-> StartFrame]
    /\ CurrentSeqNo = 0 /\ eof = 0 /\ out = <<>>
    /\ retry = 0 /\ signalled = 0 /\ faults = 0
NextEmit == ReadFrame \/ ReadDone
SpecEmit == InitEmit /\ [][NextEmit]_vars

(***************************************************************************)
(* The frame codec alone: a record is formatted into the auxiliary region  *)
(* of buf, the record may come back from tape with its first four bytes    *)
(* overwritten, and it is decoded into main's AuxFrame, which still holds  *)
(* what the previous decode left there.                                    *)
(***************************************************************************)
\* records handed to FormatAuxFrame: table entries beyond nEntries are zero
CodecRecords ==
    {[AuxRecord(t, p, q, n, sz) EXCEPT !.PartDescVersion = v] :
        t \in {FrameTypeData, FrameTypeEOD}, p \in {1, 65535}, q \in {0, 1},
        n \in {1, 16}, sz \in {0, PayloadSize}, v \in {0, 1}}
    \cup {[AuxRecord(t, p, q, 0, 0) EXCEPT !.PartDescVersion = v] :
        t \in {FrameTypeData, FrameTypeEOD}, p \in {1, 65535}, q \in {0, 1},
        v \in {0, 1}}

\* what the output record holds before a decode: zeros, or the fields of
\* the data frame decoded before
PreviousRecords ==
    {AuxRecord(0, 0, 0, 0, 0), AuxRecord(FrameTypeData, 7, 5, 1, PayloadSize)}

InitCodec ==
    /\ mode = "codec" /\ pc = "format"
    /\ ledger = EmptyLedger /\ pushed = <<>> /\ lastDel = NoDel
    /\ IdleWrite /\ IdleRead
    /\ input \in CodecRecords /\ result = <<>>
    /\ AuxFrame \in PreviousRecords
    /\ buf = Image(StaleBuffer(PayloadSize), FormatAuxFrame(AuxRecord(0, 0, 0, 0, 0)))
    /\ CurrentFrame = 0 /\ WritePass = 0 /\ adr_version = 0 /\ retry = 0
    /\ signalled = 0 /\ drive = [buffered |-> 0, first |-> 0] /\ faults = 0

CodecFormat ==
    /\ mode = "codec" /\ pc = "format"
    /\ buf' = Image(buf.payload, FormatAuxFrame(input))
    /\ pc' = "formatted"
    /\ UNCHANGED <<mode, unitVars, ledgerVars, writeVars, readVars, CurrentFrame,
                   AuxFrame, WritePass, adr_version, retry, signalled, drive, faults>>

\* the record read back is not one this format wrote: its first four
\* bytes are not all zero
CodecDamage ==
    /\ mode = "codec" /\ pc = "formatted"
    /\ buf' = [buf EXCEPT !.aux.marker = 1]
    /\ pc' = "damaged"
    /\ UNCHANGED <<mode, unitVars, ledgerVars, writeVars, readVars, CurrentFrame,
                   AuxFrame, WritePass, adr_version, retry, signalled, drive, faults>>

CodecUnformat ==
    /\ mode = "codec" /\ pc \in {"formatted", "damaged"}
    /\ AuxFrame' = unFormatAuxFrame(buf.aux, AuxFrame)
    /\ pc' = "decoded"
    /\ UNCHANGED <<mode, unitVars, ledgerVars, writeVars, readVars, CurrentFrame,
                   WritePass, adr_version, retry, buf, signalled, drive, faults>>

NextCodec == CodecFormat \/ CodecDamage \/ CodecUnformat
SpecCodec == InitCodec /\ [][NextCodec]_vars

(***************************************************************************)
(* OnStream::ParseFirmwareRev alone.  A revision string is its four        *)
(* character codes; the result is a UINT32, kept as the 32-bit value with  *)
(* the same bits and compared with ULess.                                  *)
(***************************************************************************)
ParseFirmwareRev(str) ==
    IF str[2] = 46
    THEN (str[1] - 48) * 10000 + (str[3] - 48) * 1000 + (str[4] - 48) * 100
    ELSE (str[1] - 48) * 10000 + (str[2] - 48) * 1000 + (str[3] - 48) * 100 - 100
         + 2 * (str[4] % 32) + (IF str[4] >= 96 THEN 1 ELSE 0)

\* revision strings: released "X.XX" and unreleased "XXXY", with the digits
\* 0 1 | 0 9 | 0 5 6 9 and the letters A a B Z z
RevDigits == <<{48, 49}, {48, 57}, {48, 53, 54, 57}>>
RevLetters == {65, 97, 66, 90, 122}
FirmwareStrings ==
    {<<a, 46, b, c>> : a \in RevDigits[1], b \in RevDigits[2], c \in RevDigits[3]}
    \cup UNION {{<<a, b, c, l>> : a \in RevDigits[1], b \in RevDigits[2], c \in RevDigits[3]} :
                l \in RevLetters}

InitFirmware ==
    /\ mode = "firmware" /\ pc = "inquiry"
    /\ ledger = EmptyLedger /\ pushed = <<>> /\ lastDel = NoDel
    /\ IdleWrite /\ IdleRead /\ IdleSession
    /\ input \in FirmwareStrings \X FirmwareStrings /\ result = <<>>

\* two drives answer the inquiry, each with its revision string
ParseFirmware ==
    /\ mode = "firmware" /\ pc = "inquiry"
    /\ result' = <<ParseFirmwareRev(input[1]), ParseFirmwareRev(input[2])>>
    /\ pc' = "parsed"
    /\ UNCHANGED <<mode, input, ledgerVars, writeVars, readVars, sessionVars>>

NextFirmware == ParseFirmware
SpecFirmware == InitFirmware /\ [][NextFirmware]_vars

(***************************************************************************)
(* CheckSense alone: the drive returns a sense triple with a command and   *)
(* CheckSense classifies it.                                               *)
(***************************************************************************)
\* SenseKey() is 4 bits, ASC() and ASCQ() are bytes; the triples of the
\* model are those of the switch and their neighbours
SenseTriples ==
    {Triple(k, a, q) : k \in {0, 2, 3, 4, 5, 6, 8, 13},
                       a \in {0, 4, 12, 17, 36, 38, 40, 41, 58, 68},
                       q \in {0, 1, 2, 5, 8}}

InitSense ==
    /\ mode = "sense" /\ pc = "command"
    /\ ledger = EmptyLedger /\ pushed = <<>> /\ lastDel = NoDel
    /\ IdleWrite /\ IdleRead /\ IdleSession
    /\ input \in SenseTriples /\ result = <<>>

ClassifySense ==
    /\ mode = "sense" /\ pc = "command"
    /\ result' = CheckSense(input)
    /\ pc' = "classified"
    /\ UNCHANGED <<mode, input, ledgerVars, writeVars, readVars, sessionVars>>

NextSense == ClassifySense
SpecSense == InitSense /\ [][NextSense]_vars

(***************************************************************************)
(* The start of main(): initialisation of the drive, the header frame at   *)
(* position 5 and the decision to read, to write or to stop.  input holds  *)
(* the command line and the header on tape, result the classification of   *)
(* the last CheckSense, the commands issued so far and main's return.      *)
(***************************************************************************)
\* the header frame: signature, ADR major and minor, partition description
\* version, write pass counter
Header(sig, major, minor, pdv, pass) ==
    [sig |-> sig, major |-> major, minor |-> minor, pdv |-> pdv, pass |-> pass]
Headers ==
    {Header(sig, major, minor, pdv, 1) :
        sig \in {"ADR-SEQ", "ADR_SEQ", "ADR SEQ"}, major \in {1, 2},
        minor \in {0, 1, 2, 3}, pdv \in {0, 1}}

\* the sense the drive returns with an initialisation command
StartSenses == {Triple(0, 0, 0), Triple(4, 68, 0), Triple(6, 41, 0)}

\* the header test without the test of the minor version
FormatUnderstoodAnyMinor(h) ==
    /\ h.sig \in {"ADR-SEQ", "ADR_SEQ"}
    /\ h.major = 1
    /\ h.pdv = 1

FormatUnderstood(h) ==
    /\ h.sig \in {"ADR-SEQ", "ADR_SEQ"}
    /\ h.major = 1
    /\ (h.minor = 1 \/ h.minor = 2)
    /\ h.pdv = 1

Issued(r, cmd) == [r EXCEPT !.commands = Append(r.commands, cmd)]
Returned(r, code) == [r EXCEPT !.rc = code]

InitStart ==
    /\ mode = "start" /\ pc = "VendorID"
    /\ ledger = EmptyLedger /\ pushed = <<>> /\ lastDel = NoDel
    /\ IdleWrite /\ IdleRead /\ IdleSession
    /\ input \in [write : BOOLEAN, format : BOOLEAN, header : Headers]
    /\ result = [sense |-> "none", commands |-> <<>>, rc |-> "running"]

\* pOnStream->VendorID(...); if (CheckSense(pOnStream)) return -1;
\* WaitForReady; retention; LULoad; WaitForReady
StartVendorID ==
    /\ mode = "start" /\ pc = "VendorID"
    /\ \E t \in StartSenses :
         /\ result' = [Issued(result, "VendorID") EXCEPT
                          !.sense = CheckSense(t),
                          !.rc = IF CheckSense(t) # "SNoSense" THEN "return -1" ELSE @]
         /\ pc' = IF CheckSense(t) # "SNoSense" THEN "stopped" ELSE "Load"
    /\ UNCHANGED <<mode, input, ledgerVars, writeVars, readVars, sessionVars>>

StartLoad ==
    /\ mode = "start" /\ pc = "Load"
    /\ result' = Issued(result, "LULoad")
    /\ pc' = "DataTransferMode"
    /\ UNCHANGED <<mode, input, ledgerVars, writeVars, readVars, sessionVars>>

\* pOnStream->DataTransferMode(true); CheckSense(pOnStream);
StartDataTransferMode ==
    /\ mode = "start" /\ pc = "DataTransferMode"
    /\ \E t \in StartSenses :
         result' = [Issued(result, "DataTransferMode") EXCEPT !.sense = CheckSense(t)]
    /\ pc' = "Drain"
    /\ UNCHANGED <<mode, input, ledgerVars, writeVars, readVars, sessionVars>>

StartDrain ==
    /\ mode = "start" /\ pc = "Drain"
    /\ result' = Issued(result, "Drain")
    /\ pc' = "GetTapeParameters"
    /\ UNCHANGED <<mode, input, ledgerVars, writeVars, readVars, sessionVars>>

\* tp = GetTapeParameters(pOnStream); CheckSense(pOnStream);
StartGetTapeParameters ==
    /\ mode = "start" /\ pc = "GetTapeParameters"
    /\ \E t \in StartSenses :
         result' = [Issued(result, "GetTapeParameters") EXCEPT !.sense = CheckSense(t)]
    /\ pc' = "Locate"
    /\ UNCHANGED <<mode, input, ledgerVars, writeVars, readVars, sessionVars>>

\* BufferStatus; Locate(5), which may fail; StartRead
StartLocate ==
    /\ mode = "start" /\ pc = "Locate"
    /\ \E located \in BOOLEAN :
         /\ result' = IF located
                      THEN Issued(Issued(result, "Locate"), "StartRead")
                      ELSE Returned(Issued(result, "Locate"), "return 1")
         /\ pc' = IF located THEN "ReadHeader" ELSE "stopped"
         /\ CurrentFrame' = IF located THEN ConfigFrame ELSE CurrentFrame
    /\ UNCHANGED <<mode, input, ledgerVars, writeVars, readVars, AuxFrame, WritePass,
                   adr_version, retry, buf, signalled, drive, faults>>

\* Read(buf) of the header frame and the test of its signature and versions
StartReadHeader ==
    /\ mode = "start" /\ pc = "ReadHeader"
    /\ CurrentFrame' = CurrentFrame + 1
    /\ buf' = HeaderFrame(input.header.pass)
    /\ IF FormatUnderstood(input.header)
       THEN /\ adr_version' = 1000 * input.header.major + 2 * input.header.minor
            /\ AuxFrame' = unFormatAuxFrame(HeaderFrame(input.header.pass).aux, AuxFrame)
            /\ WritePass' \in WritePassValues(input.header.pass)
            /\ result' = Issued(result, "Read")
            /\ pc' = IF input.write THEN "NextPass" ELSE "ReadUser"
       ELSE /\ UNCHANGED <<adr_version, AuxFrame, WritePass>>
            /\ result' = IF ~input.format \/ ~input.write
                         THEN Returned(Issued(result, "Read"), "return 1")
                         ELSE Issued(result, "Read")
            /\ pc' = IF ~input.format \/ ~input.write THEN "stopped" ELSE "Reformat"
    /\ UNCHANGED <<mode, input, ledgerVars, writeVars, readVars, retry, signalled,
                   drive, faults>>

\* write mode, format understood: the next write pass
StartNextPass ==
    /\ mode = "start" /\ pc = "NextPass"
    /\ WritePass' = WritePass + 1
    /\ buf' = Image(buf.payload, FormatAuxFrame(AuxFrame))
    /\ pc' = "WriteConfig"
    /\ UNCHANGED <<mode, unitVars, ledgerVars, writeVars, readVars, CurrentFrame,
                   AuxFrame, adr_version, retry, signalled, drive, faults>>

\* write mode, format not understood, format option given
StartReformat ==
    /\ mode = "start" /\ pc = "Reformat"
    /\ adr_version' = 1004
    /\ AuxFrame' = HeaderAux(65535)
    /\ WritePass' = 0
    /\ buf' = Image(ZeroBuffer(PayloadSize), FormatAuxFrame(HeaderAux(65535)))
    /\ pc' = "WriteConfig"
    /\ UNCHANGED <<mode, unitVars, ledgerVars, writeVars, readVars, CurrentFrame,
                   retry, signalled, drive, faults>>

\* Locate(5) and the Write of the first configuration frame
StartWriteConfig ==
    /\ mode = "start" /\ pc = "WriteConfig"
    /\ CurrentFrame' = ConfigFrame
    /\ result' = Issued(Issued(result, "Locate"), "Write")
    /\ pc' = "writing"
    /\ UNCHANGED <<mode, input, ledgerVars, writeVars, readVars, AuxFrame, WritePass,
                   adr_version, retry, buf, signalled, drive, faults>>

\* read mode: Locate(StartFrame), StartRead and the Read of the first
\* frame of user data
StartReadUser ==
    /\ mode = "start" /\ pc = "ReadUser"
    /\ CurrentFrame' = StartFrame
    /\ result' = Issued(Issued(Issued(result, "Locate"), "StartRead"), "ReadUser")
    /\ pc' = "reading"
    /\ UNCHANGED <<mode, input, ledgerVars, writeVars, readVars, AuxFrame, WritePass,
                   adr_version, retry, buf, signalled, drive, faults>>

NextStart ==
    \/ StartVendorID \/ StartLoad \/ StartDataTransferMode \/ StartDrain
    \/ StartGetTapeParameters \/ StartLocate \/ StartReadHeader \/ StartNextPass
    \/ StartReformat \/ StartWriteConfig \/ StartReadUser
SpecStart == InitStart /\ [][NextStart]_vars

(***************************************************************************)
(* Sessions under cancellation: signalHandler stores the signal number in  *)
(* signalled at any moment of a read or write session; the handler is then *)
(* reset, so a session sees one signal.                                    *)
(***************************************************************************)
Signals == {2, 15}

signalHandler ==
    /\ mode \in {"read", "write"}
    /\ pc \notin {"done", "raised", "failed", "crashed", "hang"}
    /\ signalled = 0
    /\ signalled' \in Signals
    /\ UNCHANGED <<mode, unitVars, ledgerVars, writeVars, readVars, CurrentFrame, AuxFrame,
                   WritePass, adr_version, retry, buf, drive, faults, pc>>

InitCancel ==
    \/ InitWrite /\ file.len = 40000 /\ Firmware = 10600 /\ adr_version = 1004
                 /\ CurrentTapeBuffer = 0
    \/ InitRead /\ Len(tape) <= 3 /\ WritePass = TapePass /\ adr_version = 1004
                /\ ~StartFrameSet
NextCancel == NextWrite \/ NextRead \/ signalHandler
SpecCancel == InitCancel /\ [][NextCancel]_vars

\* ---------------------------------------------------------------------------
\* os_dump: raw dump of no blocks from position startpos to standard output
\* ---------------------------------------------------------------------------

\* int bufsz = 33280; if (argc > 4) bufsz = atol (argv[4]);
BlockSizes == {512, 33280}

\* do_cmnd: 0, or 1..4 for a failed or short write / read on the sg device
do_cmnd == {0, 1, 2, 3, 4}

\* the buffer do_read hands to output when the data command moved no block
NoBlock == 0 - 1

\* the position a do_read of main asks for: startpos+ctr
DumpPos == input.startpos + result.ctr

\* do_locate: SEEK_10 to pos, then Read 0; the second command is only sent
\* when the first one went through
do_locate(d, pos, seek, read0) ==
    [res   |-> IF seek # 0 THEN seek ELSE read0,
     first |-> IF seek = 0 THEN pos ELSE d.first,
     last  |-> IF seek = 0 THEN pos ELSE d.last]

InitDump ==
    /\ mode = "dump" /\ pc = "main"
    /\ ledger = EmptyLedger /\ pushed = <<>> /\ lastDel = NoDel
    /\ IdleWrite /\ IdleRead /\ IdleSession
    /\ input \in [no : 0..MaxBlocks, startpos : 0..MaxStart, bufsz : BlockSizes]
    /\ \E at \in 0..MaxStart :
         result = [no |-> input.no, ctr |-> 0, first |-> at, last |-> at,
                   written |-> <<>>, status |-> 0]

\* res = onstream_set325 (sg_fd); res = do_locate (sg_fd, startpos);
\* both results only print a message
DumpMain ==
    /\ mode = "dump" /\ pc = "main"
    /\ \E seek \in do_cmnd, read0 \in do_cmnd :
         \E l \in {do_locate(result, input.startpos, seek, read0)} :
            result' = [result EXCEPT !.first = l.first, !.last = l.last]
    /\ pc' = "while"
    /\ UNCHANGED <<mode, input, ledgerVars, writeVars, readVars, sessionVars>>

\* while (no--) ... ; res = close(sg_fd); return 6 or 0
DumpWhile ==
    /\ mode = "dump" /\ pc = "while"
    /\ \E closed \in BOOLEAN :
         /\ result' = [result EXCEPT
                          !.no = @ - 1,
                          !.status = IF result.no # 0 \/ closed THEN @ ELSE 6]
         /\ result.no # 0 => closed
    /\ pc' = IF result.no # 0 THEN "do_read" ELSE "exit"
    /\ UNCHANGED <<mode, input, ledgerVars, writeVars, readVars, sessionVars>>

\* do_read: the read position command fails; if (res) return res;
\* main: if (res) return (4);
DumpReadPosFail ==
    /\ mode = "dump" /\ pc = "do_read"
    /\ \E res \in do_cmnd \ {0} :
         result' = [result EXCEPT !.status = 4]
    /\ pc' = "exit"
    /\ UNCHANGED <<mode, input, ledgerVars, writeVars, readVars, sessionVars>>

\* do_read: if (fblk > pos || lblk <= pos || BPU) { locate when the drive
\* stopped right before pos; sleep (1); goto loop; }
\* while the program sleeps the drive may read one more block ahead
DumpWait ==
    /\ mode = "dump" /\ pc = "do_read"
    /\ \E bpu \in BOOLEAN, seek \in do_cmnd, ahead \in 0..1 :
         /\ result.first > DumpPos \/ result.last <= DumpPos \/ bpu
         /\ \E l \in {IF result.first < DumpPos /\ result.last = DumpPos
                      THEN do_locate(result, DumpPos, seek, 0)
                      ELSE do_locate(result, DumpPos, 1, 0)} :
              /\ l.last + ahead <= DumpCap
              /\ result' = [result EXCEPT !.first = l.first, !.last = l.last + ahead]
    /\ pc' = "do_read"
    /\ UNCHANGED <<mode, input, ledgerVars, writeVars, readVars, sessionVars>>

\* do_read: READ_6 of one block; res = do_cmnd (...); if (pr) output (rbBuff+OFF, size);
\* main: if (res) return (4); ctr++;
DumpRead ==
    /\ mode = "dump" /\ pc = "do_read"
    /\ result.first <= DumpPos /\ result.last > DumpPos
    /\ \E res \in do_cmnd :
         /\ result' = [result EXCEPT
                          !.written = Append(@, [pos   |-> DumpPos,
                                                 block |-> IF res = 0 THEN result.first
                                                                      ELSE NoBlock,
                                                 len   |-> input.bufsz]),
                          !.first = IF res = 0 THEN @ + 1 ELSE @,
                          !.ctr = IF res = 0 THEN @ + 1 ELSE @,
                          !.status = IF res = 0 THEN @ ELSE 4]
         /\ pc' = IF res = 0 THEN "while" ELSE "exit"
    /\ UNCHANGED <<mode, input, ledgerVars, writeVars, readVars, sessionVars>>

NextDump == DumpMain \/ DumpWhile \/ DumpReadPosFail \/ DumpWait \/ DumpRead
SpecDump == InitDump /\ [][NextDump]_vars

(***************************************************************************)
(* Transport: OnStream::SCSICommand over the sg device.                    *)
(***************************************************************************)
\* sizeof(sg_header); the sense buffer is its last 16 bytes
cbSGHeader == 36
SenseOffset == 20
\* the calls of a run of the transport alone
MaxCalls == 3

\* the bytes of a 16-byte sense buffer the program looks at
SenseBuffer(b2, b9, b12, b13) == [b2 |-> b2, b9 |-> b9, b12 |-> b12, b13 |-> b13]
NoSenseBuffer == SenseBuffer(0, 0, 0, 0)

\* SenseKey(), ASC(), ASCQ()
SenseKey(sense_buffer) == sense_buffer.b2 % 16
ASC(sense_buffer) == sense_buffer.b12
ASCQ(sense_buffer) == sense_buffer.b13
SenseTriple(sense_buffer) ==
    Triple(SenseKey(sense_buffer), ASC(sense_buffer), ASCQ(sense_buffer))

\* the object after construction
NewOnStream ==
    [nPacketID |-> 1, LastError |-> "oseNoError", pLastSense |-> NoSenseBuffer,
     SG |-> NoSenseBuffer]

\* the sense buffers a device of the model returns: no sense, medium write
\* error with a skip count, not ready with the ILI bit, end of data
DeviceSenses ==
    {NoSenseBuffer, SenseBuffer(3, 3, 12, 0), SenseBuffer(34, 0, 4, 1),
     SenseBuffer(8, 0, 0, 5)}

\* what the device does with one command of cb bytes: whether select()
\* reports it writable and readable, the return values of write() and
\* read(), the sense buffer of its reply
Device(cb) ==
    [writable : BOOLEAN, wrote : {-1, cbSGHeader, cbSGHeader + cb},
     readable : BOOLEAN, got : {-1, SenseOffset, SenseOffset + 10, cbSGHeader},
     sense : DeviceSenses]

\* the first n bytes of the reply land in pTempBuffer, whose header was
\* cleared at the start of the call
Landed(sense, n) ==
    SenseBuffer(IF n > SenseOffset + 2 THEN sense.b2 ELSE 0,
                IF n > SenseOffset + 9 THEN sense.b9 ELSE 0,
                IF n > SenseOffset + 12 THEN sense.b12 ELSE 0,
                IF n > SenseOffset + 13 THEN sense.b13 ELSE 0)

\* a transport that runs all four phases whatever the earlier ones returned
PhasesAll(cb, dev) == <<"wait-writable", "write", "wait-readable", "read">>

\* the phases of one call, in the order they are attempted
Phases(cb, dev) ==
    <<"wait-writable">>
    \o (IF ~dev.writable THEN <<>>
        ELSE <<"write">>
             \o (IF dev.wrote < cbSGHeader + cb THEN <<>>
                 ELSE <<"wait-readable">>
                      \o (IF ~dev.readable THEN <<>> ELSE <<"read">>)))

\* the value of LastError a failing call leaves, "" for a call that succeeds
Fault(cb, dev) ==
    IF ~dev.writable THEN "oseDeviceWriteTimeout"
    ELSE IF dev.wrote < cbSGHeader + cb THEN "oseDeviceWriteError"
    ELSE IF ~dev.readable THEN "oseDeviceReadTimeout"
    ELSE IF dev.got < 0 THEN "oseDeviceReadError"
    ELSE IF dev.got < cbSGHeader THEN "oseDeviceShortRead"
    ELSE ""

\* nPacketID++ on a UINT32, held as the int that pack_id receives
Incr32(n) == IF n = 2147483647 THEN -2147483647 - 1 ELSE n + 1

\* SCSICommand: the object after the call, the packet id sent, the phases
\* attempted and the value returned
SCSICommand(os, cb, dev) ==
    LET fault == Fault(cb, dev)
        read == Phases(cb, dev)[Len(Phases(cb, dev))] = "read"
        header == Landed(dev.sense, IF dev.got < 0 THEN 0 ELSE dev.got)
    IN  [os |-> [nPacketID |-> Incr32(os.nPacketID),
                 LastError |-> IF fault = "" THEN os.LastError ELSE fault,
                 pLastSense |-> IF read THEN header ELSE os.pLastSense,
                 SG |-> IF fault = "" THEN header ELSE os.SG],
         pack_id |-> os.nPacketID,
         phases |-> Phases(cb, dev),
         ret |-> fault = ""]

InitTransport ==
    /\ mode = "transport" /\ pc = "idle"
    /\ ledger = EmptyLedger /\ pushed = <<>> /\ lastDel = NoDel
    /\ IdleWrite /\ IdleRead /\ IdleSession
    /\ input = [os |-> NewOnStream, cb |-> 0, dev |-> <<>>] /\ result = <<>>

\* one command of 6 or 10 bytes is passed to the device; input keeps the
\* object and what the device did with the last command, result the calls
TransportCall ==
    /\ mode = "transport" /\ pc = "idle" /\ Len(result) < MaxCalls
    /\ \E cb \in {6, 10} : \E dev \in Device(cb) :
       \E r \in {SCSICommand(input.os, cb, dev)} :
         /\ input' = [os |-> r.os, cb |-> cb, dev |-> dev]
         /\ result' = Append(result, [pack_id |-> r.pack_id, phases |-> r.phases,
                                      ret |-> r.ret])
    /\ UNCHANGED <<mode, pc, ledgerVars, writeVars, readVars, sessionVars>>

NextTransport == TransportCall
SpecTransport == InitTransport /\ [][NextTransport]_vars

(***************************************************************************)
(* Readiness waiter: WaitForReady.                                         *)
(***************************************************************************)
\* the probes of one call of WaitForReady the model follows
MaxProbes == 3

\* the sense buffers a device of the model answers Test Unit Ready with:
\* the cases of the switch of WaitForReady, an unrecovered read error and a
\* triple of no table
ReadySenses ==
    {NoSenseBuffer, SenseBuffer(5, 0, 36, 0), SenseBuffer(2, 0, 4, 0),
     SenseBuffer(2, 0, 4, 1), SenseBuffer(2, 0, 4, 2), SenseBuffer(2, 0, 58, 0),
     SenseBuffer(2, 0, 4, 8), SenseBuffer(3, 0, 12, 0), SenseBuffer(6, 0, 40, 0),
     SenseBuffer(6, 0, 41, 0), SenseBuffer(3, 0, 17, 0), SenseBuffer(4, 0, 68, 0)}
ReadyDevice ==
    [writable : BOOLEAN, wrote : {cbSGHeader + 6}, readable : {TRUE},
     got : {-1, cbSGHeader}, sense : ReadySenses]

\* a waiter that takes every sense but the fatal ones of its switch for ready
WaitForReadySwitchLenient(t, fReadyOnNoMedium) ==
    LET v == t.key * 65536 + t.asc * 256 + t.ascq
    IN  IF v \in {336896, 132098, 199680, 403712} THEN "exit" ELSE "return"

\* the switch of WaitForReady over (SenseKey << 16) | (ASC << 8) | ASCQ:
\* "return" ends the loop, "exit" ends the process, "sleep" is break,
\* sleep(1) and the next pass
WaitForReadySwitch(t, fReadyOnNoMedium) ==
    LET v == t.key * 65536 + t.asc * 256 + t.ascq
    IN  CASE v = 0 -> "return"
          [] v = 336896 -> "exit"                                   \* 0x052400
          [] v = 132096 -> "sleep"                                  \* 0x020400
          [] v = 132097 -> "sleep"                                  \* 0x020401
          [] v = 132098 -> "exit"                                   \* 0x020402
          [] v = 145920 -> IF ~fReadyOnNoMedium THEN "exit" ELSE "sleep"
                                                                    \* 0x023A00
          [] v = 132104 -> "sleep"                                  \* 0x020408
          [] v = 199680 -> "exit"                                   \* 0x030C00
          [] v = 403456 -> "sleep"                                  \* 0x062800
          [] v = 403712 -> "exit"                                   \* 0x062900
          [] OTHER -> "exit"

\* TestUnitReady: a command of 6 bytes
TestUnitReady(os, dev) == SCSICommand(os, 6, dev)

\* WaitForReady is entered, with or without fReadyOnNoMedium
InitReady ==
    /\ mode = "ready" /\ pc = "loop"
    /\ ledger = EmptyLedger /\ pushed = <<>> /\ lastDel = NoDel
    /\ IdleWrite /\ IdleRead /\ IdleSession
    /\ \E f \in BOOLEAN :
         input = [os |-> NewOnStream, fReadyOnNoMedium |-> f, dev |-> <<>>]
    /\ result = <<>>

\* One pass of the loop of WaitForReady: the probe, the switch, and for a
\* sense that is waited on sleep(1).  result keeps what each pass did.
ReadyProbe ==
    /\ mode = "ready" /\ pc = "loop" /\ Len(result) < MaxProbes
    /\ \E dev \in ReadyDevice :
       \E r \in {TestUnitReady(input.os, dev)} :
       \E did \in {IF ~r.ret THEN "exit"
                   ELSE WaitForReadySwitch(SenseTriple(r.os.SG),
                                           input.fReadyOnNoMedium)} :
         /\ input' = [input EXCEPT !.os = r.os, !.dev = dev]
         /\ result' = Append(result, did)
         /\ pc' = CASE did = "return" -> "returned"
                     [] did = "exit" -> "exit"
                     [] OTHER -> "loop"
    /\ UNCHANGED <<mode, ledgerVars, writeVars, readVars, sessionVars>>

NextReady == ReadyProbe
SpecReady == InitReady /\ [][NextReady]_vars

\* every run the model follows
Init ==
    \/ InitLedger \/ InitWrite \/ InitRead \/ InitCodec \/ InitFirmware \/ InitSense
    \/ InitStart \/ InitRetry \/ InitCancel \/ InitDump \/ InitDrain \/ InitReread
    \/ InitTransport \/ InitReady \/ InitArea \/ InitEmit
Next ==
    \/ NextLedger \/ NextWrite \/ NextRead \/ NextCodec \/ NextFirmware \/ NextSense
    \/ NextStart \/ NextRetry \/ signalHandler \/ NextDump \/ NextDrain \/ NextReread
    \/ NextTransport \/ NextReady \/ NextArea \/ NextEmit
Spec == Init /\ [][Next]_vars

(***************************************************************************)
(* Properties of the write session.                                        *)
(***************************************************************************)
\* the data and end-of-data frames handed to Write, in order, as
\* <<FrameType, FrameSequenceNumber, size of table entry 0>>
UserFrames(log) ==
    LET user == SelectSeq(log, LAMBDA e : e.FrameType \in {FrameTypeData, FrameTypeEOD})
    IN  [i \in 1..Len(user) |->
           IF user[i].FrameType = FrameTypeEOD THEN <<FrameTypeEOD, 0, 0>>
           ELSE <<FrameTypeData, user[i].FrameSequenceNumber, user[i].size>>]

\* no trim has failed and no freed ledger storage was touched
SoundLedger == ~ledger.ub /\ ~mismatch

\* the session ran without a fault of the drive
CleanRun == mode = "write" /\ faults = 0 /\ SoundLedger /\ signalled = 0

\* C1: a fault-free write session with an input of exactly 65,536 bytes hands
\* the drive exactly two data frames (sequence numbers 0 and 1, sizes 32,768
\* and 32,768) and then exactly one end-of-data frame.
C1_TwoDataFramesThenEOD ==
    CleanRun /\ file.len = 65536 /\ pc = "done" =>
        UserFrames(sent) = << <<FrameTypeData, 0, PayloadSize>>,
                              <<FrameTypeData, 1, PayloadSize>>,
                              <<FrameTypeEOD, 0, 0>> >>

\* the number of times the drive accepted the data frame with sequence
\* number q: a Write answered with no sense, followed by the ledger push
Accepted(log, q) ==
    Cardinality({i \in 1..Len(log) :
                   /\ log[i].FrameType = FrameTypeData
                   /\ log[i].FrameSequenceNumber = q
                   /\ log[i].how = "write" /\ log[i].sense = "SNoSense"})

\* C2: once the end-of-data frame is written, every data frame built from the
\* input was accepted by the drive exactly once, whatever write fault the
\* session recovered from.
C2_EveryFrameAcceptedOnce ==
    mode = "write" /\ SoundLedger /\ pc \in {"waitforwrite", "drain", "done"} =>
        \A i \in 1..Len(built) : Accepted(sent, built[i]) = 1

\* the first size bytes of a payload are the input bytes from offset base on
HoldsInput(payload, size, base) ==
    \A g \in payload : g.lo < size /\ g.lo < g.hi => g.kind = "data" /\ g.off = base

\* C3: in a fault-free write session the payload of data frame k, cut to the
\* size of its table entry 0, is the input bytes [32768 k, 32768 k + size).
C3_PayloadIsInputSlice ==
    CleanRun =>
        \A i \in 1..Len(sent) :
            sent[i].FrameType = FrameTypeData =>
                HoldsInput(sent[i].payload, sent[i].size,
                           PayloadSize * sent[i].FrameSequenceNumber)

\* C4: after each CheckWrittenFrames that follows a push, the ledger length,
\* as TotalBufferedFrames and as the number of entries reachable from
\* TapeBuffer, is the count the drive reported.
C4_LedgerTracksDrive ==
    mode = "write" /\ afterCheck /\ SoundLedger /\ pc # "crashed" =>
        /\ ledger.TotalBufferedFrames = CurrentTapeBuffer
        /\ Len(Reachable(ledger)) = CurrentTapeBuffer

\* C6: once a trim has found the ledger and the drive to disagree, no further
\* frame is handed to the drive.
C6_MismatchStopsWriting ==
    [][mode = "write" /\ mismatch => sent' = sent]_vars

\* C7: when the write session has finished, the ledger is empty.
C7_LedgerEmptyAtEnd ==
    mode = "write" /\ SoundLedger /\ pc = "done" =>
        ledger.TotalBufferedFrames = 0 /\ Reachable(ledger) = <<>>

(***************************************************************************)
(* Properties of the read session.                                         *)
(***************************************************************************)
\* the registers when the read loop is entered
InitRegisters ==
    [CurrentFrame |-> StartFrame, CurrentSeqNo |-> 0, retry |-> 0, eof |-> 0,
     AuxFrame |-> HeaderAux(TapePass), buf |-> HeaderFrame(TapePass), out |-> <<>>,
     recovery |-> <<>>]

\* what the read loop writes to the output when no Read faults, from
\* registers r on tape t, followed until it ends or leaves the recorded frames
RECURSIVE RunRead(_, _, _, _, _)
RunRead(r, t, pass, sfs, fuel) ==
    IF r.eof # 0 \/ fuel = 0 \/ r.CurrentFrame < ConfigFrame
       \/ r.CurrentFrame >= StartFrame + Len(t)
    THEN r.out
    ELSE RunRead(ReadStep(r, FrameAt(t, r.CurrentFrame), pass, sfs), t, pass, sfs, fuel - 1)

\* the record the next Read decodes
FrameRead == unFormatAuxFrame(FrameAt(tape, CurrentFrame).aux, AuxFrame)

\* C8: on a clean tape (sequence numbers 0 .. n-1 of the session's pass, then
\* the end-of-data frame) a read session without read faults emits exactly
\* the n payloads in order and ends without leaving the recorded frames; the
\* sequence numbers emitted are always consecutive from 0.
C8_CleanTapeReadInOrder ==
    mode = "read" /\ faults = 0 /\ tape \in {CleanTape(0, n, TapePass) : n \in 0..MaxFrames} =>
        /\ \A i \in 1..Len(out) : out[i].seq = i - 1
        /\ (pc = "read" /\ eof = 0 => OnTape(CurrentFrame))
        /\ (pc = "done" =>
              out = [i \in 1..(Len(tape) - 1) |-> Emitted(tape[i].aux, tape[i])])

\* the clean tapes that become tape t when a copy of an earlier data frame
\* of the same pass is put in front of the k-th frame, k > 1, the session
\* reading them from their first sequence number on
WithoutLowFrame(t) ==
    {b \in CleanTapes :
        /\ (b[1].aux.FrameSequenceNumber = 0 \/ StartFrameSet)
        /\ \E k \in 2..Len(b), q \in 0..MaxFrames :
             /\ q < b[k].aux.FrameSequenceNumber
             /\ t = InsertAt(b, k, DataFrame(q, TapePass, PayloadSize, "stale"))}

\* C9: a Read that yields a data frame whose sequence number is lower than
\* the cursor emits nothing and leaves the cursor and the retry counter as
\* they were; and when the session ends, the output is that of the same tape
\* without the frame.
C9_LowFrameSkipped ==
    [][/\ (ReadFrame /\ FrameRead.FrameType = FrameTypeData
             /\ FrameRead.FrameSequenceNumber < CurrentSeqNo)
          => (out' = out /\ CurrentSeqNo' = CurrentSeqNo /\ retry' = retry)
       /\ (mode = "read" /\ faults = 0 /\ eof # 0)
          => \A b \in WithoutLowFrame(tape) :
                out = RunRead(InitRegisters, b, WritePass, StartFrameSet, 8 * (Len(b) + 8))
      ]_vars

\* a session that emitted two frames, skipped a copy of an earlier one and ended
C9_Witness ==
    /\ mode = "read" /\ pc = "done" /\ faults = 0
    /\ WithoutLowFrame(tape) # {}
    /\ Len(out) >= 2

\* C10: a Read that yields a data frame whose write pass counter is not the
\* one of the header emits nothing and leaves the cursor as it was.
C10_StalePassNeverEmitted ==
    [][(ReadFrame /\ FrameRead.FrameType = FrameTypeData
          /\ FrameRead.WritePassCounter # TapePass)
       => (out' = out /\ CurrentSeqNo' = CurrentSeqNo)]_vars

\* a frame of an earlier pass that carries exactly the expected sequence
\* number was read after a frame was emitted, and the cursor did not move
C10_Witness ==
    /\ mode = "read" /\ WritePass = TapePass
    /\ AuxFrame.FrameType = FrameTypeData /\ AuxFrame.WritePassCounter # TapePass
    /\ AuxFrame.FrameSequenceNumber = CurrentSeqNo
    /\ Len(out) >= 1


(***************************************************************************)
(* Properties of the frame codec.                                          *)
(***************************************************************************)
\* C11: decoding a formatted record gives back the record field for field,
\* the partition description version and the table entries beyond nEntries
\* (zero) included, whatever the output record held before.
C11_CodecRoundTrip ==
    mode = "codec" /\ pc = "decoded" /\ buf.aux.marker = 0 => AuxFrame = input

\* C12: decoding a record whose first four bytes are not all zero leaves
\* the output record empty: frame type, sequence number, write pass counter
\* and table entry are zero, nothing of an earlier frame remains.
C12_BadMarkerDecodesEmpty ==
    mode = "codec" /\ pc = "decoded" /\ buf.aux.marker # 0 =>
        /\ AuxFrame.FrameType = 0
        /\ AuxFrame.FrameSequenceNumber = 0
        /\ AuxFrame.WritePassCounter = 0
        /\ AuxFrame.nEntries = 0 /\ AuxFrame.size = 0

(***************************************************************************)
(* Properties of the firmware normalisation.                               *)
(***************************************************************************)
\* the vendor's ordering of revision strings: by the three digits, then an
\* unreleased revision before the released one, then by letter, then upper
\* case before lower case
RevNumber(str) ==
    IF str[2] = 46 THEN 100 * (str[1] - 48) + 10 * (str[3] - 48) + (str[4] - 48)
    ELSE 100 * (str[1] - 48) + 10 * (str[2] - 48) + (str[3] - 48)
RevReleased(str) == str[2] = 46
RevLetter(str) == IF str[4] >= 97 THEN str[4] - 96 ELSE str[4] - 64
RevLower(str) == str[4] >= 97
VendorLess(s, t) ==
    \/ RevNumber(s) < RevNumber(t)
    \/ /\ RevNumber(s) = RevNumber(t)
       /\ \/ ~RevReleased(s) /\ RevReleased(t)
          \/ /\ ~RevReleased(s) /\ ~RevReleased(t)
             /\ \/ RevLetter(s) < RevLetter(t)
                \/ RevLetter(s) = RevLetter(t) /\ ~RevLower(s) /\ RevLower(t)

\* C13: the normalised revisions compare as the vendor orders the strings:
\* an unreleased revision lies above the previous released one and below
\* its own released revision, upper case before lower case, both before
\* the next letter.
C13_FirmwareMonotone ==
    mode = "firmware" /\ pc = "parsed" /\ VendorLess(input[1], input[2]) =>
        ULess(result[1], result[2])

\* the same for every revision whose three digits are not 000
C13_FirmwareMonotoneAboveZero ==
    mode = "firmware" /\ pc = "parsed" /\ VendorLess(input[1], input[2])
        /\ RevNumber(input[1]) > 0 /\ RevNumber(input[2]) > 0 =>
        ULess(result[1], result[2])

(***************************************************************************)
(* Properties of the sense classification.                                 *)
(***************************************************************************)
\* the listed triples and their conditions
SenseTable ==
    {<<0, 0, 0, "SNoSense">>, <<5, 36, 0, "SInvalidCDB">>,
     <<2, 4, 0, "SNotReportable">>, <<2, 4, 1, "SReadyInProgress">>,
     <<2, 4, 2, "SInitRequired">>, <<2, 58, 0, "SNoMedium">>,
     <<2, 4, 8, "SLongWrite">>, <<3, 12, 0, "SMediumWriteError">>,
     <<3, 17, 0, "SUnrecoveredReadError">>, <<5, 38, 2, "SInvalidParameter">>,
     <<6, 40, 0, "SNotReadyToReady">>, <<6, 41, 0, "SPowerOnReset">>,
     <<13, 0, 2, "SEndOfMedium">>, <<8, 0, 5, "SEOD">>}
Listed(t) == {row \in SenseTable : row[1] = t.key /\ row[2] = t.asc /\ row[3] = t.ascq}

\* C14: each of the 14 listed triples is classified as its listed
\* condition, every other triple as unknown, and no triple as
\* wait-position-timeout.
C14_SenseClassification ==
    mode = "sense" /\ pc = "classified" =>
        /\ \A row \in Listed(input) : result = row[4]
        /\ Listed(input) = {} => result = "SUnknown"
        /\ result # "STimeoutWaitPos"
C14_Witness ==
    mode = "sense" /\ pc = "classified" /\ input = Triple(8, 0, 5) /\ result = "SEOD"

(***************************************************************************)
(* Properties of the start of main().                                      *)
(***************************************************************************)
\* C15: once CheckSense has classified the sense of a command as unknown,
\* no further command is issued to the drive.
C15_UnknownSenseStops ==
    [][mode = "start" /\ result.sense = "SUnknown" => result'.commands = result.commands]_vars

\* the header the claim calls recognised
Recognised(h) ==
    h.sig \in {"ADR-SEQ", "ADR_SEQ"} /\ h.major = 1 /\ h.minor \in {1, 2} /\ h.pdv = 1
Has(cmd) == \E i \in 1..Len(result.commands) : result.commands[i] = cmd

\* C19: with an unrecognised header a read session never reads user data,
\* a write session writes no frame unless the format option was given, and
\* with the format option it writes a re-initialised tape with write pass 0.
C19_UnrecognisedFormatStops ==
    mode = "start" /\ ~Recognised(input.header) =>
        /\ ~input.write => ~Has("ReadUser") /\ pc # "reading"
        /\ input.write /\ ~input.format => ~Has("Write") /\ pc # "writing"
        /\ input.write /\ input.format /\ Has("Write") =>
              /\ WritePass = 0
              /\ buf = Image(ZeroBuffer(PayloadSize), FormatAuxFrame(HeaderAux(65535)))
        /\ pc = "stopped" /\ Has("Read") => result.rc = "return 1"
C19_Witness ==
    /\ mode = "start" /\ ~Recognised(input.header) /\ input.header.minor = 3
    /\ input.header.sig = "ADR-SEQ" /\ input.header.major = 1 /\ input.header.pdv = 1
    /\ input.write /\ input.format /\ pc = "writing"

(***************************************************************************)
(* Properties of the write recovery.                                       *)
(***************************************************************************)
\* a step of the streaming loop whose Write ended in a medium write error
MediumErrorStep ==
    /\ mode = "write" /\ pc = "stream"
    /\ Len(sent') > Len(sent)
    /\ sent'[Len(sent) + 1].sense = "SMediumWriteError"
\* the recovery commands of the step
RecoverySteps(q) ==
    LET steps == SelectSeq(q, LAMBDA e : e.cmd \in {"ReadPosition", "Locate SKIP",
                                                     "RequeueData"})
    IN  [i \in 1..Len(steps) |-> steps[i].cmd]
Recovered == RecoverySteps(SubSeq(recovery', Len(recovery) + 1, Len(recovery')))
InSeq(x, q) == \E i \in 1..Len(q) : q[i] = x

C17_RecoveryBounded ==
    mode = "retry" => Len(SelectSeq(sent, LAMBDA e : e.sense = "SMediumWriteError")) <= 5

\* the recovery commands of the step, and the first of them named c
StepCommands == SubSeq(recovery', Len(recovery) + 1, Len(recovery'))
StepHas(c) == \E i \in 1..Len(StepCommands) : StepCommands[i].cmd = c
StepFirst(c) ==
    CHOOSE i \in 1..Len(StepCommands) :
        /\ StepCommands[i].cmd = c
        /\ \A j \in 1..(i - 1) : StepCommands[j].cmd # c
StepArg(c) == StepCommands[StepFirst(c)].arg

\* C21: the full requeue after a medium write error, in the streaming
\* loop and in the drain loop alike, relocates to the tape position it
\* read plus the skip count: byte 9 of the sense buffer when that is not
\* zero, 80 otherwise.
C21_RequeueSkipFromSense ==
    [][(mode = "write" /\ StepHas("GetLastSense") /\ StepHas("Locate")) =>
          StepArg("Locate") = StepArg("ShowPosition")
                                + (IF StepArg("GetLastSense") # 0
                                   THEN StepArg("GetLastSense") ELSE 80)]_vars

\* the frames handed to Write in the step, and those of them replayed
StepSent == SubSeq(sent', Len(sent) + 1, Len(sent'))
StepReplayed == SelectSeq(StepSent, LAMBDA e : e.how = "replay")
\* the frames the drive accepted from the session so far, oldest first
AcceptedFrames == SelectSeq(sent, LAMBDA e : e.how = "write" /\ e.sense = "SNoSense")
\* the image of a line of the log
ImageOf(e) ==
    [FrameType |-> e.FrameType, FrameSequenceNumber |-> e.FrameSequenceNumber,
     size |-> e.size, payload |-> e.payload]
ImagesOf(q) == [i \in 1..Len(q) |-> ImageOf(q[i])]
\* the n newest of the accepted frames
Unconfirmed(n) ==
    IF n < 0 \/ n > Len(AcceptedFrames) THEN <<>>
    ELSE SubSeq(AcceptedFrames, Len(AcceptedFrames) - n + 1, Len(AcceptedFrames))
\* the names of the commands of the step from the call of RequeueData on,
\* the Write commands of the replay left out
RequeueOrder ==
    LET q == SelectSeq(SubSeq(StepCommands, StepFirst("RequeueData"), Len(StepCommands)),
                       LAMBDA e : e.cmd # "Write")
    IN  [i \in 1..Len(q) |-> q[i].cmd]
WritesLast ==
    \A i, j \in 1..Len(StepCommands) :
       (StepCommands[i].cmd = "Write" /\ StepCommands[j].cmd = "WaitForReady"
          /\ j < StepFirst("RequeueData") + 6) => j < i

\* C22: a full requeue reads the tape position, has the drive discard its
\* buffered frames, relocates, waits for ready and then retransmits the
\* frames of the ledger, oldest first and unmodified: as many frames as the
\* ledger counts, which are the newest frames the drive accepted, the frame
\* that failed not among them.
C22_RequeueOrderAndReplay ==
    [][(mode = "write" /\ StepHas("DeleteBuffer")) =>
          /\ SubSeq(RequeueOrder, 1, 6)
                = <<"RequeueData", "ShowPosition", "BufferStatus", "DeleteBuffer",
                    "Locate", "WaitForReady">>
          /\ WritesLast
          /\ Len(StepReplayed) = ledger'.TotalBufferedFrames
          /\ ImagesOf(StepReplayed) = ImagesOf(Unconfirmed(ledger'.TotalBufferedFrames))
          /\ \A i \in 1..Len(StepSent) :
                StepSent[i].sense = "SMediumWriteError" =>
                   \A j \in 1..Len(StepReplayed) :
                      ImageOf(StepReplayed[j]) # ImageOf(StepSent[i])]_vars

\* a medium write error of the streaming loop recovered by SkipLocate alone
SkipLocateStep ==
    /\ MediumErrorStep
    /\ ~ULess(Firmware, SkipLocateFirmware)
    /\ ~StepHas("RequeueData")

\* C23: a skip-locate recovery relocates with the SKIP bit (the drive keeps
\* its cache), sends no DeleteBuffer, retransmits no frame of the ledger
\* and leaves the ledger as it was; the session's current frame becomes the
\* first frame position the drive reports after the relocate.
C23_SkipLocateKeepsLedger ==
    [][SkipLocateStep =>
          /\ StepHas("Locate SKIP")
          /\ \A i \in 1..Len(StepCommands) :
                StepCommands[i].cmd = "Locate" => StepCommands[i].arg = AfterSecondCfg
          /\ ~StepHas("DeleteBuffer") /\ ~StepHas("Write")
          /\ StepReplayed = <<>>
          /\ ledger' = ledger
          /\ StepCommands[4].cmd = "ReadPosition"
          /\ CurrentFrame' = IF StepCommands[4].arg = second_cfg THEN AfterSecondCfg
                             ELSE StepCommands[4].arg]_vars
C23_Witness ==
    /\ mode = "write" /\ ~ULess(Firmware, SkipLocateFirmware) /\ retry = 1
    /\ Len(recovery) = 4 /\ recovery[3].cmd = "Locate SKIP"
    /\ CurrentFrame = recovery[4].arg
    /\ ledger.TotalBufferedFrames > 0

\* the last relocation among the recovery commands issued so far
Relocations == {"Locate", "Locate SKIP"}
LastRelocation ==
    CHOOSE i \in 1..Len(recovery) :
        /\ recovery[i].cmd \in Relocations
        /\ \A j \in (i + 1)..Len(recovery) : recovery[j].cmd \notin Relocations

\* C24: when the session issues a normal write after a write recovery that
\* relocated the tape, by SkipLocate or by RequeueData, WaitForReady was run
\* after the relocation.
C24_ReadyAfterRelocation ==
    [][(/\ mode = "write" /\ retry = 1
        /\ StepSent # <<>> /\ StepSent[1].how = "write"
        /\ \E i \in 1..Len(recovery) : recovery[i].cmd \in Relocations) =>
          \E j \in (LastRelocation + 1)..Len(recovery) :
             recovery[j].cmd = "WaitForReady"]_vars

\* a pass of the streaming loop whose Write the drive answered with
\* power-on reset
PowerOnResetStep ==
    /\ mode = "write" /\ pc = "stream"
    /\ StepSent # <<>> /\ StepSent[1].sense = "SPowerOnReset"

\* C25: on power-on reset the session relocates to (current frame - ledger
\* length), replays the whole ledger oldest first, each frame where it was
\* first written, and is then about to rewrite the frame that was in
\* flight at the current frame, where the tape again stands.
C25_PowerOnResetReplay ==
    [][PowerOnResetStep =>
          /\ StepArg("Locate") = CurrentFrame - ledger.TotalBufferedFrames
          /\ pc' = "stream" /\ retry' = 1 /\ CurrentFrame' = CurrentFrame
          /\ ImageOf(StepSent[1]) = [ImageOf(StepSent[1]) EXCEPT
                                        !.payload = buf'.payload,
                                        !.FrameSequenceNumber = buf'.aux.FrameSequenceNumber]
          /\ Len(StepReplayed) = ledger.TotalBufferedFrames
          /\ ImagesOf(StepReplayed) = ImagesOf(Unconfirmed(ledger.TotalBufferedFrames))
          /\ drive'.first = CurrentFrame']_vars

\* C26: the drain phase ends: when every poll of WaitForWrite is answered
\* with a medium write error, the recoveries stop after a bounded number
\* (5) of attempts.
C26_DrainBounded ==
    mode = "drain" =>
       Len(SelectSeq(recovery, LAMBDA e : e.cmd = "RequeueData")) <= 5

(***************************************************************************)
(* Properties of the read session's recovery.                              *)
(***************************************************************************)

\* the step is a pass of the read loop whose Read found no recorded frame
EndOfDataSenseStep ==
    /\ mode \in {"read", "reread"} /\ pc = "read" /\ eof = 0 /\ signalled = 0
    /\ ~OnTape(CurrentFrame)

\* C27: an end-of-data sense received while the session is not in error
\* recovery (retry = 0) skips 5 frames ahead and the session goes on; one
\* received while it is in error recovery (retry # 0) ends the session.
C27_EndOfDataSense ==
    [][EndOfDataSenseStep =>
          IF retry = 0
          THEN CurrentFrame' = CurrentFrame + 5 /\ eof' = 0 /\ pc' = "read"
          ELSE eof' = 1 \/ pc' # "read"]_vars

\* the step is a pass of the read loop whose Read returned a frame
FrameReadStep ==
    /\ mode \in {"read", "reread", "emit"} /\ pc = "read" /\ pc' = "read"
    /\ eof = 0 /\ signalled = 0
    /\ OnTape(CurrentFrame) /\ faults' = faults

\* C28: a frame of type end-of-data ends the session exactly when retry is
\* zero; while retry is not zero the frame is passed over: the session goes
\* on at the next frame with its cursor, its count and its output as they
\* were.
C28_EndOfDataFrame ==
    [][(FrameReadStep /\ AuxFrame'.FrameType = FrameTypeEOD) =>
          /\ (eof' = 1) <=> (retry = 0)
          /\ retry # 0 =>
                /\ eof' = 0 /\ CurrentFrame' = CurrentFrame + 1
                /\ UNCHANGED <<retry, CurrentSeqNo, out>>]_vars

\* an end-of-data frame was passed over during a recovery
C28_Witness ==
    /\ mode = "read" /\ pc = "read"
    /\ AuxFrame.FrameType = FrameTypeEOD /\ buf = FrameAt(tape, CurrentFrame - 1)
    /\ retry # 0 /\ eof = 0

\* the Locates of one kind since the last frame was consumed
RECURSIVE SinceConsumed(_, _)
SinceConsumed(q, c) ==
    IF q = <<>> \/ q[Len(q)].cmd = "fwrite" THEN 0
    ELSE SinceConsumed(SubSeq(q, 1, Len(q) - 1), c)
         + (IF q[Len(q)].cmd = c THEN 1 ELSE 0)

\* the step ends the session because a retry ceiling was passed: by a read
\* error, or by a data frame whose sequence number is ahead of the cursor
CeilingStep ==
    /\ mode \in {"read", "reread"} /\ pc = "read" /\ eof = 0 /\ eof' = 1
    /\ OnTape(CurrentFrame)
    /\ faults' # faults \/ AuxFrame'.FrameType = FrameTypeData

\* C29: the skips after read errors and the backtracks after sequence gaps
\* are counted apart: the session is ended by a read error only after 5
\* skips since the last consumed frame, and by a sequence gap only after 5
\* backtracks since the last consumed frame.
C29_IndependentCeilings ==
    [][CeilingStep =>
          IF faults' # faults
          THEN SinceConsumed(recovery, "Locate next") >= 5
          ELSE SinceConsumed(recovery, "Locate back") >= 5]_vars

\* the step is a backtrack: a frame was read whose sequence number is ahead
\* of the cursor, and the session relocated
BacktrackStep ==
    /\ FrameReadStep
    /\ Len(recovery') = Len(recovery) + 1
    /\ recovery'[Len(recovery')].cmd = "Locate back"

\* (position after the read) - (sequence number - cursor + 1)
BacktrackBase ==
    CurrentFrame + 1 - (AuxFrame'.FrameSequenceNumber - CurrentSeqNo' + 1)

\* C30: a backtrack relocates to (position after the read) - (sequence
\* number - cursor + 1), moved back by 6 (ADR before 1.2) or by 5 (ADR 1.2)
\* when that lies in second_cfg + 1 .. second_cfg + 5, and the target is
\* never below the first frame of user data.
C30_BacktrackTarget ==
    [][BacktrackStep =>
          /\ CurrentFrame' =
                IF BacktrackBase > second_cfg /\ BacktrackBase <= second_cfg + 5
                THEN BacktrackBase - (IF adr_version < 1004 THEN 6 ELSE 5)
                ELSE BacktrackBase
          /\ recovery'[Len(recovery')].arg = CurrentFrame'
          /\ CurrentFrame' >= StartFrame]_vars

(***************************************************************************)
(* Properties of the ledger in a write session.                            *)
(***************************************************************************)

\* the step hands one frame to Write, the drive takes it, and the frame is
\* pushed and the ledger trimmed against a BufferStatus poll
NormalWriteStep ==
    /\ mode = "write" /\ pc' # "crashed"
    /\ Len(sent') = Len(sent) + 1
    /\ sent'[Len(sent')].how = "write" /\ sent'[Len(sent')].sense = "SNoSense"

\* q without its first n entries
DropFront(q, n) == SubSeq(q, n + 1, Len(q))
IsSuffix(q, r) == \E n \in 0..Len(r) : q = DropFront(r, n)

\* C35: the ledger holds its entries oldest first; a push appends, and a
\* trim after a BufferStatus poll drops (previous drive count + frames added
\* - current drive count) entries from the front; nothing else removes or
\* reorders entries.
C35_LedgerFifo ==
    [][mode = "write" /\ pc' # "crashed" =>
          IF NormalWriteStep
          THEN LedgerFrames(ledger') =
                  DropFront(Append(LedgerFrames(ledger), buf'),
                            CurrentTapeBuffer + 1 - CurrentTapeBuffer')
          ELSE IsSuffix(LedgerFrames(ledger'), LedgerFrames(ledger))]_vars

\* C40: after any sequence of AddFrameToBuffer and DeleteFrames,
\* TotalBufferedFrames is the number of entries reachable from TapeBuffer,
\* every one of them is a live node, and the tail the next push links from
\* is a live node or NULL.
C40_LedgerCounted ==
    (mode = "ledger" /\ pc = "ledger") =>
        /\ ledger.TotalBufferedFrames = Len(Reachable(ledger))
        /\ \A i \in 1..Len(Reachable(ledger)) : ledger.heap[Reachable(ledger)[i]].live
        /\ ledger.LastTapeBuffer = NULL \/ ledger.heap[ledger.LastTapeBuffer].live

\* the data frames of a log that were handed to Write by the streaming
\* loop, and those of them the drive took
Written(log) ==
    SelectSeq(log, LAMBDA e : e.how = "write" /\ e.FrameType = FrameTypeData)
Taken(log) == SelectSeq(Written(log), LAMBDA e : e.sense = "SNoSense")

C37_WritePassRead ==
    [][(FrameReadStep /\ mode = "read"
        /\ AuxFrame'.FrameType = FrameTypeData
        /\ AuxFrame'.WritePassCounter = HeaderFrame(TapePass).aux.WritePassCounter
        /\ AuxFrame'.FrameSequenceNumber = CurrentSeqNo) =>
          /\ ~StaleFrame(AuxFrame', WritePass)
          /\ Len(out') = Len(out) + 1]_vars

\* the step hands a data frame to Write in the streaming loop
DataWriteStep ==
    /\ mode \in {"write", "area"} /\ pc = "stream"
    /\ Len(sent') > Len(sent)
    /\ sent'[Len(sent) + 1].how = "write"
    /\ sent'[Len(sent) + 1].FrameType = FrameTypeData
InSecondCfg(frame) == frame >= second_cfg /\ frame < second_cfg + 5

\* C38: no data frame is written at a position of the secondary
\* configuration area: when the next write would fall in second_cfg ..
\* second_cfg + 4, also after a skip-locate or a requeue moved the current
\* frame, the session relocates to 0xBB8 first.
C38_SecondCfgKept ==
    [][/\ DataWriteStep => ~InSecondCfg(CurrentFrame)
       /\ (mode \in {"write", "area"} /\ pc' = "stream") => ~InSecondCfg(CurrentFrame')]_vars

\* the step consumes a data frame, and what it emits
ConsumeStep ==
    /\ mode \in {"read", "emit"} /\ FrameReadStep /\ Len(out') = Len(out) + 1
EmittedNow == out'[Len(out')]

\* C39: consuming a data frame emits exactly the bytes [0, size) of its
\* payload region, size being what its data access table entry 0 records:
\* never more than 32,768 bytes and no byte of the auxiliary record,
\* whatever size and nEntries the frame records.
C39_EmitsPayloadOnly ==
    [][ConsumeStep =>
          /\ EmittedNow.size <= PayloadSize
          /\ \A seg \in EmittedNow.bytes : seg.kind # "aux"
          /\ FrameAt(tape, CurrentFrame).aux.nEntries >= 1 =>
                /\ EmittedNow.size = FrameAt(tape, CurrentFrame).aux.size
                /\ EmittedNow.bytes =
                      Slice(FrameAt(tape, CurrentFrame).payload, 0,
                            FrameAt(tape, CurrentFrame).aux.size)]_vars

(***************************************************************************)
(* Properties of the transport.                                            *)
(***************************************************************************)

\* the step is a call of SCSICommand, and its record
TransportStep == mode = "transport" /\ Len(result') = Len(result) + 1
ThisCall == result'[Len(result')]

\* the phase at which the device of the step first fails, 5 if at none
FirstFailing ==
    LET dev == input'.dev
    IN  IF ~dev.writable THEN 1
        ELSE IF dev.wrote # cbSGHeader + input'.cb THEN 2
        ELSE IF ~dev.readable THEN 3
        ELSE IF dev.got # cbSGHeader THEN 4
        ELSE 5

\* C33: every call of SCSICommand, failing or not, sends a packet id one
\* greater than the call before it, the first one 1; its phases are
\* wait-writable, write, wait-readable, read in this order up to the first
\* one that fails; the fault names that phase (a read that fails names read
\* error or short read) and a call that meets no failure returns true.
C33_TransportPhases ==
    [][TransportStep =>
          /\ ThisCall.pack_id = Len(result')
          /\ ThisCall.pack_id =
                (IF result = <<>> THEN 0 ELSE result[Len(result)].pack_id) + 1
          /\ ThisCall.phases =
                SubSeq(<<"wait-writable", "write", "wait-readable", "read">>,
                       1, Min(FirstFailing, 4))
          /\ ThisCall.ret = (FirstFailing = 5)
          /\ FirstFailing = 1 => input'.os.LastError = "oseDeviceWriteTimeout"
          /\ FirstFailing = 2 => input'.os.LastError = "oseDeviceWriteError"
          /\ FirstFailing = 3 => input'.os.LastError = "oseDeviceReadTimeout"
          /\ FirstFailing = 4 =>
                input'.os.LastError = (IF input'.dev.got < 0 THEN "oseDeviceReadError"
                                       ELSE "oseDeviceShortRead")]_vars

\* a third call was made after a write error and a read timeout
C33_Witness ==
    /\ mode = "transport" /\ Len(result) = 3
    /\ Len(result[1].phases) = 2 /\ Len(result[2].phases) = 3
    /\ result[3].pack_id = 3 /\ result[3].ret

\* C34: after every call of SCSICommand, failing or not, the triple that
\* CheckSense classifies is the triple of the sense buffer GetLastSense
\* returns.
C34_SenseOfLastCall ==
    (mode = "transport" /\ result # <<>>) =>
       SenseTriple(input.os.SG) = SenseTriple(input.os.pLastSense)

(***************************************************************************)
(* Properties of the readiness waiter.                                     *)
(***************************************************************************)

\* the step is a pass of the loop of WaitForReady; the class of the sense
\* the device answered its probe with
ProbeStep == mode = "ready" /\ Len(result') = Len(result) + 1
ProbeFault ==
    \/ ~input'.dev.writable \/ ~input'.dev.readable
    \/ input'.dev.wrote # cbSGHeader + 6 \/ input'.dev.got # cbSGHeader
ProbeClass == CheckSense(SenseTriple(input'.dev.sense))

\* C31: WaitForReady returns only after a probe answered no-condition; on
\* becoming-ready and not-ready-to-ready it sleeps and probes again; on
\* initialization-required, no-medium (not tolerated), medium-write-error,
\* power-on-reset, invalid-command and an unknown triple, and on a fault of
\* the transport, the process ends.
C31_ReadinessWaiter ==
    [][ProbeStep =>
          /\ pc' = "returned" => (~ProbeFault /\ ProbeClass = "SNoSense")
          /\ (~ProbeFault /\ ProbeClass = "SNoSense") => pc' = "returned"
          /\ (~ProbeFault /\ ProbeClass \in {"SReadyInProgress", "SNotReadyToReady"}) =>
                (pc' = "loop" /\ result'[Len(result')] = "sleep")
          /\ (~ProbeFault /\ ProbeClass \in {"SInitRequired", "SMediumWriteError",
                                              "SPowerOnReset", "SInvalidCDB",
                                              "SUnknown"}) => pc' = "exit"
          /\ (~ProbeFault /\ ProbeClass = "SNoMedium" /\ ~input.fReadyOnNoMedium) =>
                pc' = "exit"
          /\ ProbeFault => pc' = "exit"]_vars

\* WaitForReady returned at its third probe, after two probes whose sense
\* it waited on
C31_Witness ==
    /\ mode = "ready" /\ pc = "returned"
    /\ result = <<"sleep", "sleep", "return">>
    /\ input.os.nPacketID = 4

\* C32: called with fReadyOnNoMedium, WaitForReady takes a no-medium sense
\* for ready and returns.
C32_ReadyOnNoMedium ==
    [][(ProbeStep /\ ~ProbeFault /\ ProbeClass = "SNoMedium"
        /\ input.fReadyOnNoMedium) => pc' = "returned"]_vars

(***************************************************************************)
(* Properties of cancellation.                                             *)
(***************************************************************************)
\* C18: once the cancellation flag is set, no new frame is started (no
\* data frame is built, nothing more is emitted), and a session whose loop
\* saw the flag does not end by the normal return: it raises the signal.
C18_CancelRaisesSignal ==
    [][(mode \in {"read", "write"} /\ signalled # 0) =>
          (/\ built' = built
           /\ out' = out
           /\ ((mode = "write" \/ eof = 0) => pc' # "done"))]_vars


(***************************************************************************)
(* Properties of os_dump.                                                  *)
(***************************************************************************)
\* C20: os_dump writes exactly one bufsz-byte chunk for each successfully read
\* block, the blocks being those at startpos, startpos+1, ... in this order;
\* it exits 0 after no such chunks, and when a read fails it exits 4 with
\* nothing written for the failed block.
C20_DumpOutput ==
    mode = "dump" =>
       /\ \A i \in 1..Len(result.written) :
             /\ result.written[i].block = input.startpos + i - 1
             /\ result.written[i].len = input.bufsz
       /\ (pc = "exit" /\ result.status = 0) => Len(result.written) = input.no
       /\ (pc = "exit" /\ result.status = 4) => Len(result.written) = result.ctr

=========================================================================
